---- MODULE Spec2Model ----
(***************************************************************************)
(* Model of the trade analytics engine of the FX journal                   *)
(* (src/src/data_manager.py, class TradeAnalyzer).                         *)
(*                                                                         *)
(* A DataFrame is a record [cols, rows]: cols is the set of column names,  *)
(* rows the sequence of rows in frame order.  A nullable number (a float   *)
(* cell that may be NaN, a datetime cell that may be NaT) is a tuple:      *)
(* <<>> is NaN/NaT, <<v>> the value v.  A quotient a/b that the code       *)
(* computes in floating point is the pair <<a, b>>; <<1, 0>> is +inf.      *)
(* A net P&L is a whole number of thousandths of a yen.                    *)
(* Japanese string literals of the source are romanised: "subete" is the   *)
(* filter sentinel, "Tokyo"/"London"/"NewYork"/"Other" the sessions.       *)
(***************************************************************************)
EXTENDS Integers, Sequences, FiniteSets, TLC

VARIABLES
    input,      \* the caller's DataFrame handed to TradeAnalyzer(df)
    df,         \* TradeAnalyzer.df, the analyzer's own collection
    pc,         \* "new" before __init__, "ready" after it, "returned" after a call;
                \* "sheet", "loaded", "failed" around load_data; "editing", "edited",
                \* "saved" on the trade log; "catalog", "managing" for the strategies;
                \* "cache" for the manager's frame; "syncing", "notion" for the syncs
    ret,        \* [op, val]: the value returned by the latest call
    raised,     \* "none", or the exception the latest call raised
    sheet,      \* the worksheet of the Trade Store: its cells and its dropdown
    storage,    \* StrategyStorage: strategies, the JSON file, the clock
    manager,    \* StrategyManager.strategies
    notion      \* NotionClient: the pages of the database and the ticket cache

store == <<sheet, storage, manager, notion>>

vars == <<input, df, pc, raised, sheet, storage, manager, notion, ret>>

(***************************************************************************)
(* Bounds of the model.                                                    *)
(***************************************************************************)
MaxTrades == 3          \* rows of a collection in the metric specification
MaxSessionTrades == 1   \* rows of a collection in the session specification
MaxStreakTrades == 7    \* rows of a collection in the streak specification
MaxOddTrades == 4       \* rows of a streak collection with zero and null P&L
MaxFilterTrades == 2    \* rows of a collection in the filter specification
MaxPredicates == 2      \* keys of a filters dict (or all six)
MaxGroupTrades == 3     \* rows of a collection in the grouping specification
MaxSheetRows == 2       \* data rows of a worksheet
MaxHeaders == 3         \* columns of a worksheet with arbitrary headers

(***************************************************************************)
(* Nullable numbers and quotients.                                         *)
(***************************************************************************)
NaN == <<>>
NaT == <<>>
None == "<None>"
Num(v) == <<v>>
IsNaN(x) == x = <<>>
Val(x) == x[1]
Inf == <<1, 0>>
Ratio(a, b) == <<a, b>>

\* abs() of a float: abs(nan) is nan.
Abs(x) == IF IsNaN(x) THEN NaN ELSE IF Val(x) < 0 THEN Num(-Val(x)) ELSE x

\* a + b on floats: nan if either operand is nan.
Add(a, b) == IF IsNaN(a) \/ IsNaN(b) THEN NaN ELSE Num(Val(a) + Val(b))

\* a - b on floats (Series - Series, element by element).
Sub(a, b) == IF IsNaN(a) \/ IsNaN(b) THEN NaN ELSE Num(Val(a) - Val(b))

\* Series.sum(): NaN cells are skipped, the sum of nothing is 0.
RECURSIVE SeriesSum(_)
SeriesSum(s) ==
    IF Len(s) = 0 THEN 0
    ELSE (IF IsNaN(Head(s)) THEN 0 ELSE Val(Head(s))) + SeriesSum(Tail(s))

\* Series.cumsum(): a NaN cell stays NaN and is skipped by the running sum.
RECURSIVE CumSumFrom(_, _)
CumSumFrom(s, acc) ==
    IF Len(s) = 0 THEN <<>>
    ELSE IF IsNaN(Head(s)) THEN <<NaN>> \o CumSumFrom(Tail(s), acc)
    ELSE <<Num(acc + Val(Head(s)))>> \o CumSumFrom(Tail(s), acc + Val(Head(s)))

cumsum(s) == CumSumFrom(s, 0)

\* Series.cummax(): a NaN cell stays NaN and is skipped by the running maximum.
RECURSIVE CumMaxFrom(_, _)
CumMaxFrom(s, acc) ==
    IF Len(s) = 0 THEN <<>>
    ELSE IF IsNaN(Head(s)) THEN <<NaN>> \o CumMaxFrom(Tail(s), acc)
    ELSE LET m == IF IsNaN(acc) \/ Val(Head(s)) > Val(acc) THEN Head(s) ELSE acc
         IN  <<m>> \o CumMaxFrom(Tail(s), m)

cummax(s) == CumMaxFrom(s, NaN)

\* Series.min(): NaN cells are skipped; NaN when no cell is left.
SeriesMin(s) ==
    LET vals == {Val(s[i]) : i \in {j \in 1..Len(s) : ~IsNaN(s[j])}}
    IN  IF vals = {} THEN NaN
        ELSE Num(CHOOSE m \in vals : \A v \in vals : m <= v)

Column(rows, c) == [i \in 1..Len(rows) |-> rows[i][c]]

(***************************************************************************)
(* Columns.                                                                *)
(***************************************************************************)
\* TradeDataManager.COLUMN_MAPPING keys that the analyzer reads.
CanonicalColumns ==
    {"trade_id", "currency_pair", "type", "start_time", "date", "pips",
     "holding_time_sec", "net_profit_loss_jpy", "strategy"}

DerivedColumns ==
    {"is_win", "hour", "day_of_week", "day_name", "market_session",
     "holding_category", "cumulative_profit"}

\* a classifier whose Tokyo branch reads 9 <= hour <= 15
_get_market_session_tokyo_closed(hour) ==
    IF ~IsNaN(hour) /\ 9 <= Val(hour) /\ Val(hour) <= 15 THEN "Tokyo"
    ELSE IF ~IsNaN(hour) /\ 16 <= Val(hour) /\ Val(hour) < 24 THEN "London"
    ELSE IF ~IsNaN(hour) /\ 0 <= Val(hour) /\ Val(hour) < 6 THEN "NewYork"
    ELSE "Other"

\* a bucketing whose comparisons read minutes <= 5, <= 30, <= 60
_categorize_holding_time_closed(seconds) ==
    IF IsNaN(seconds) THEN "unknown"
    ELSE IF Val(seconds) <= 5 * 60 THEN "under5"
    ELSE IF Val(seconds) <= 30 * 60 THEN "5to30"
    ELSE IF Val(seconds) <= 60 * 60 THEN "30to60"
    ELSE "over60"

(***************************************************************************)
(* TradeAnalyzer._get_market_session: every comparison with a NaN hour is  *)
(* false, so a missing hour falls through to the last branch.              *)
(***************************************************************************)
_get_market_session(hour) ==
    IF ~IsNaN(hour) /\ 9 <= Val(hour) /\ Val(hour) < 15 THEN "Tokyo"
    ELSE IF ~IsNaN(hour) /\ 16 <= Val(hour) /\ Val(hour) < 24 THEN "London"
    ELSE IF ~IsNaN(hour) /\ ((0 <= Val(hour) /\ Val(hour) < 6)
                             \/ (22 <= Val(hour) /\ Val(hour) < 24)) THEN "NewYork"
    ELSE "Other"

(***************************************************************************)
(* TradeAnalyzer._categorize_holding_time: minutes = seconds / 60 compared *)
(* with 5, 30 and 60, written on the seconds.                              *)
(***************************************************************************)
_categorize_holding_time(seconds) ==
    IF IsNaN(seconds) THEN "unknown"
    ELSE IF Val(seconds) < 5 * 60 THEN "under5"
    ELSE IF Val(seconds) < 30 * 60 THEN "5to30"
    ELSE IF Val(seconds) < 60 * 60 THEN "30to60"
    ELSE "over60"

(***************************************************************************)
(* Rows.  trade_id is the row's position in the caller's frame, so every   *)
(* row of a collection is distinct.  start_time is NaT or <<weekday, hour>>*)
(* (weekday 0 = Monday), which is all the analyzer reads of it.            *)
(***************************************************************************)
Frame(cols, rows) == [cols |-> cols, rows |-> rows]

\* DataFrame.empty
Empty(d) == Len(d.rows) = 0 \/ d.cols = {}

(***************************************************************************)
(* DataFrame.sort_values('date'), default kind='quicksort', na_position=   *)
(* 'last'.  The rows with a date come first in ascending date order; the   *)
(* sort is not stable, so rows of equal date come out in any order.  The   *)
(* NaT rows follow in their original relative order.  The operator is the  *)
(* set of frames the call can return.                                      *)
(***************************************************************************)
RECURSIVE AscendingOrders(_, _)
AscendingOrders(rows, idx) ==
    IF idx = {} THEN {<<>>}
    ELSE LET least == {i \in idx : \A j \in idx :
                            Val(rows[i].date) <= Val(rows[j].date)}
         IN  UNION {{<<rows[i]>> \o t : t \in AscendingOrders(rows, idx \ {i})}
                    : i \in least}

sort_values(rows) ==
    LET dated == {i \in 1..Len(rows) : ~IsNaN(rows[i].date)}
        nat   == SelectSeq(rows, LAMBDA r : IsNaN(r.date))
    IN  {o \o nat : o \in AscendingOrders(rows, dated)}

(***************************************************************************)
(* TradeAnalyzer._prepare_data: the frames self.df can be after the call.  *)
(***************************************************************************)
hour_of(st) == IF IsNaN(st) THEN NaN ELSE Num(st[2])

DayNames == <<"Monday", "Tuesday", "Wednesday", "Thursday", "Friday",
              "Saturday", "Sunday">>

day_name_of(st) == IF IsNaN(st) THEN None ELSE DayNames[st[1] + 1]

is_win_of(n) == ~IsNaN(n) /\ Val(n) > 0

WithFeatures(r) ==
    r @@ [is_win |-> is_win_of(r.net_profit_loss_jpy),
          hour |-> hour_of(r.start_time),
          day_of_week |-> IF IsNaN(r.start_time) THEN NaN ELSE Num(r.start_time[1]),
          day_name |-> day_name_of(r.start_time),
          market_session |-> _get_market_session(hour_of(r.start_time)),
          holding_category |-> _categorize_holding_time(r.holding_time_sec)]

WithCumulative(rows) ==
    LET c == cumsum(Column(rows, "net_profit_loss_jpy"))
    IN  [i \in 1..Len(rows) |-> rows[i] @@ [cumulative_profit |-> c[i]]]

_prepare_data(d) ==
    IF Empty(d) THEN {d}
    ELSE LET featured == [i \in 1..Len(d.rows) |-> WithFeatures(d.rows[i])]
         IN  {Frame(d.cols \cup DerivedColumns, WithCumulative(o))
              : o \in sort_values(featured)}

(***************************************************************************)
(* TradeAnalyzer.calculate_metrics.  The returned dict is a function from  *)
(* its keys; the empty dict is the function with no keys.                  *)
(***************************************************************************)
EmptyDict == <<>>

\* a profit factor that is 0, not inf, when there is neither profit nor loss
profit_factor_zero_when_flat(total_profit, total_loss) ==
    IF total_loss > 0 THEN Ratio(total_profit, total_loss)
    ELSE IF total_profit > 0 THEN Inf ELSE Ratio(0, 1)

\* profit_factor = (total_profit / total_loss) if total_loss > 0 else inf
profit_factor_of(total_profit, total_loss) ==
    IF total_loss > 0 THEN Ratio(total_profit, total_loss) ELSE Inf

\* losing_trades = total_trades - winning_trades
losing_trades_of(total_trades, winning_trades) == total_trades - winning_trades

\* Series.mean(): NaN cells are skipped; NaN when no cell is left.
SeriesMean(s) ==
    LET n == Cardinality({i \in 1..Len(s) : ~IsNaN(s[i])})
    IN  IF n = 0 THEN NaN ELSE Ratio(SeriesSum(s), n)

\* abs((cumulative - cumulative.cummax()).min())
max_drawdown_of(cumulative) ==
    LET running_max == cummax(cumulative)
        drawdown == [i \in 1..Len(cumulative) |-> Sub(cumulative[i], running_max[i])]
    IN  Abs(SeriesMin(drawdown))

calculate_metrics(d) ==
    IF Empty(d) THEN EmptyDict
    ELSE
    LET total_trades == Len(d.rows)
        wins == SelectSeq(d.rows, LAMBDA r : r.is_win)
        losses == SelectSeq(d.rows, LAMBDA r : ~r.is_win)
        winning_trades == Len(wins)
        losing_trades == losing_trades_of(total_trades, winning_trades)
        total_profit == SeriesSum(Column(wins, "net_profit_loss_jpy"))
        loss_sum == SeriesSum(Column(losses, "net_profit_loss_jpy"))
        total_loss == IF loss_sum < 0 THEN -loss_sum ELSE loss_sum
    IN  [total_trades |-> total_trades,
         winning_trades |-> winning_trades,
         losing_trades |-> losing_trades,
         win_rate |-> IF total_trades > 0 THEN Ratio(winning_trades * 100, total_trades)
                      ELSE Ratio(0, 1),
         profit_factor |-> profit_factor_of(total_profit, total_loss),
         avg_pips |-> IF "pips" \in d.cols THEN SeriesMean(Column(d.rows, "pips"))
                      ELSE Ratio(0, 1),
         max_drawdown |-> IF "cumulative_profit" \in d.cols
                          THEN max_drawdown_of(Column(d.rows, "cumulative_profit"))
                          ELSE Num(0),
         total_net_profit |-> SeriesSum(Column(d.rows, "net_profit_loss_jpy")),
         total_profit |-> total_profit,
         total_loss |-> total_loss]

(***************************************************************************)
(* TradeAnalyzer.get_consecutive_losses.  scan is the loop's local state;  *)
(* the amounts are floats (abs of a NaN cell is NaN and poisons the sum).  *)
(***************************************************************************)
StreakMin == 3

ScanInit ==
    [max_consecutive |-> 0, current_consecutive |-> 0,
     max_loss_amount |-> Num(0), current_loss_amount |-> Num(0),
     loss_streaks |-> <<>>, current_streak |-> <<>>]

\* if current_consecutive > max_consecutive: remember the run as the longest
UpdateMax(scan) ==
    IF scan.current_consecutive > scan.max_consecutive
    THEN [scan EXCEPT !.max_consecutive = scan.current_consecutive,
                      !.max_loss_amount = scan.current_loss_amount]
    ELSE scan

\* if current_consecutive >= 3: append the run to loss_streaks
RecordStreak(scan) ==
    IF scan.current_consecutive >= StreakMin
    THEN [scan EXCEPT !.loss_streaks = Append(scan.loss_streaks,
                            [count |-> scan.current_consecutive,
                             total_loss |-> scan.current_loss_amount,
                             trades |-> scan.current_streak])]
    ELSE scan

\* the body of "for idx, row in df_sorted.iterrows()"
ScanRow(scan, row) ==
    IF ~row.is_win
    THEN [scan EXCEPT !.current_consecutive = scan.current_consecutive + 1,
                      !.current_loss_amount =
                          Add(scan.current_loss_amount, Abs(row.net_profit_loss_jpy)),
                      !.current_streak = Append(scan.current_streak, row)]
    ELSE LET closed == IF scan.current_consecutive > 0
                       THEN RecordStreak(UpdateMax(scan)) ELSE scan
         IN  [closed EXCEPT !.current_consecutive = 0,
                            !.current_loss_amount = Num(0),
                            !.current_streak = <<>>]

RECURSIVE ScanRows(_, _)
ScanRows(scan, rows) ==
    IF Len(rows) = 0 THEN scan ELSE ScanRows(ScanRow(scan, Head(rows)), Tail(rows))

\* the block after the loop: a run still open when the sequence ends
ScanEnd(scan) ==
    IF scan.current_consecutive > 0 THEN RecordStreak(UpdateMax(scan)) ELSE scan

StreakResult(df_sorted) ==
    LET scan == ScanEnd(ScanRows(ScanInit, df_sorted))
    IN  [max_consecutive |-> scan.max_consecutive,
         max_loss_amount |-> scan.max_loss_amount,
         loss_streaks |-> scan.loss_streaks,
         df_sorted |-> df_sorted]

\* The results the call can return; df_sorted is kept beside the returned
\* triple so that the scan order is visible.
get_consecutive_losses(d) ==
    IF Empty(d)
    THEN {[max_consecutive |-> 0, max_loss_amount |-> Num(0),
           loss_streaks |-> <<>>, df_sorted |-> <<>>]}
    ELSE {StreakResult(o) : o \in sort_values(d.rows)}

(***************************************************************************)
(* TradeAnalyzer.get_filtered_trades.  filters is a dict: a function from  *)
(* the keys that are present.  A call ends with a frame or with KeyError   *)
(* (a column the frame does not have).                                     *)
(***************************************************************************)
Subete == "subete"

Ok(frame) == [raised |-> "none", val |-> frame]
KeyError(frame) == [raised |-> "KeyError", val |-> frame]

\* frame[mask], the mask computed from column col: kept is the rows of the
\* frame whose mask cell is true
Keep(x, col, kept) ==
    IF x.raised # "none" THEN x
    ELSE IF col \notin x.val.cols THEN KeyError(x.val)
    ELSE Ok(Frame(x.val.cols, kept))

\* 'k' in filters and filters['k'], for a string value
StrSet(filters, k) == k \in DOMAIN filters /\ filters[k] \notin {None, ""}

\* the three categorical stages: exact match unless the value is the sentinel
Categorical(x, filters, k) ==
    IF StrSet(filters, k) /\ filters[k] # Subete
    THEN Keep(x, k, SelectSeq(x.val.rows, LAMBDA r : r[k] = filters[k]))
    ELSE x

\* 'date_range' in filters and filters['date_range']: None and () are falsy
DateRangeStage(x, filters) ==
    IF "date_range" \in DOMAIN filters /\ filters["date_range"] # <<>>
    THEN LET start_date == filters["date_range"][1]
             end_date == filters["date_range"][2]
         IN  Keep(x, "date",
                  SelectSeq(x.val.rows, LAMBDA r : /\ ~IsNaN(r.date)
                                                   /\ Val(r.date) >= start_date
                                                   /\ Val(r.date) <= end_date))
    ELSE x

ProfitRangeStage(x, filters) ==
    IF "profit_range" \in DOMAIN filters /\ filters["profit_range"] # <<>>
    THEN LET min_profit == filters["profit_range"][1]
             max_profit == filters["profit_range"][2]
         IN  Keep(x, "net_profit_loss_jpy",
                  SelectSeq(x.val.rows,
                            LAMBDA r : /\ ~IsNaN(r.net_profit_loss_jpy)
                                       /\ Val(r.net_profit_loss_jpy) >= min_profit
                                       /\ Val(r.net_profit_loss_jpy) <= max_profit))
    ELSE x

OnlyLossesStage(x, filters) ==
    IF "only_losses" \in DOMAIN filters /\ filters["only_losses"]
    THEN Keep(x, "is_win", SelectSeq(x.val.rows, LAMBDA r : ~r.is_win))
    ELSE x

get_filtered_trades(d, filters) ==
    OnlyLossesStage(
      ProfitRangeStage(
        DateRangeStage(
          Categorical(
            Categorical(
              Categorical(Ok(d), filters, "currency_pair"),
              filters, "type"),
            filters, "strategy"),
          filters),
        filters),
      filters)

(***************************************************************************)
(* The analyze_by_* aggregations.  A grouped frame is the sequence of its  *)
(* index keys with each key's statistics.                                  *)
(***************************************************************************)
\* a / b rounded to the nearest integer, halves to even (numpy round)
RoundDiv(a, b) ==
    LET q == a \div b
        r == a % b
    IN  IF 2 * r < b THEN q
        ELSE IF 2 * r > b THEN q + 1
        ELSE IF q % 2 = 0 THEN q ELSE q + 1

\* .round(2) of a quotient, in hundredths
Round2(x) == IF IsNaN(x) THEN NaN ELSE Ratio(RoundDiv(100 * x[1], x[2]), 100)

\* .round(2) of an amount.  A net P&L cell counts thousandths of a yen (the
\* sheet holds decimals), so two decimals are a multiple of RoundStep.
RoundStep == 10

RoundAmount(v) == RoundStep * RoundDiv(v, RoundStep)

\* .round(2) of a mean amount a / b
RoundMeanAmount(x) ==
    IF IsNaN(x) THEN NaN ELSE Num(RoundStep * RoundDiv(x[1], RoundStep * x[2]))

EmptyFrame == Frame({}, <<>>)

\* groupby(key).agg(...).round(2) for one key, then the win-rate rescaling
GroupStats(rows, k, key) ==
    LET g == SelectSeq(rows, LAMBDA r : r[k] = key)
        net == Column(g, "net_profit_loss_jpy")
        wins == Cardinality({i \in 1..Len(g) : g[i].is_win})
    IN  [key |-> key,
         sum |-> RoundAmount(SeriesSum(net)),
         mean |-> RoundMeanAmount(SeriesMean(net)),
         count |-> Cardinality({i \in 1..Len(net) : ~IsNaN(net[i])}),
         pips |-> Round2(SeriesMean(Column(g, "pips"))),
         win_rate |-> Round2(Ratio(wins, Len(g)))[1]]

\* groupby drops the rows whose key is null
GroupKeys(rows, k) == {rows[i][k] : i \in 1..Len(rows)} \ {None}

Groups(rows, k) == {GroupStats(rows, k, key) : key \in GroupKeys(rows, k)}

\* sort_values('sum', ascending=False): groups of equal sum in any order
RECURSIVE DescendingOrders(_)
DescendingOrders(gs) ==
    IF gs = {} THEN {<<>>}
    ELSE LET top == {g \in gs : \A h \in gs : g.sum >= h.sum}
         IN  UNION {{<<g>> \o t : t \in DescendingOrders(gs \ {g})} : g \in top}

\* reindex(order): a label without a group is listed with NaN values
Reindex_unfiltered(gs, order) ==
    [i \in 1..Len(order) |->
        IF \E g \in gs : g.key = order[i]
        THEN CHOOSE g \in gs : g.key = order[i]
        ELSE [key |-> order[i], sum |-> NaN, mean |-> NaN, count |-> NaN,
              pips |-> NaN, win_rate |-> NaN]]

\* reindex([c for c in order if c in grouped.index])
Reindex(gs, order) ==
    LET present == SelectSeq(order, LAMBDA c : \E g \in gs : g.key = c)
    IN  [i \in 1..Len(present) |-> CHOOSE g \in gs : g.key = present[i]]

\* str.strip(), str.lower(), str.upper() and str.replace('#', '') on the
\* strings of the model
Strip(s) == CASE s = " " -> "" [] s = " S1" -> "S1" [] s = " shuhou" -> "shuhou"
              [] OTHER -> s
Lower(s) == CASE s = "NaN" -> "nan" [] s = "None" -> "none"
              [] s = "S1" -> "s1" [] s = "S2" -> "s2" [] s = " S1" -> " s1"
              [] s = "NAN" -> "nan" [] s = "NONE" -> "none" [] s = "BUY" -> "buy"
              [] s = "USDJPY" -> "usdjpy" [] s = "EURUSD" -> "eurusd"
              [] s = "#USDJPY" -> "#usdjpy"
              [] OTHER -> s
Upper(s) == CASE s = "nan" -> "NAN" [] s = "NaN" -> "NAN" [] s = "none" -> "NONE"
              [] s = "None" -> "NONE" [] s = "usdjpy" -> "USDJPY"
              [] s = "buy" -> "BUY" [] s = "sell" -> "SELL"
              [] OTHER -> s
RemoveHash(s) == CASE s = "#USDJPY" -> "USDJPY" [] s = "#" -> "" [] OTHER -> s

analyze_by_strategy(d) ==
    IF Empty(d) \/ "strategy" \notin d.cols THEN {EmptyFrame}
    ELSE LET df_valid == SelectSeq(d.rows, LAMBDA r : /\ r.strategy # None
                                                     /\ Strip(r.strategy) # ""
                                                     /\ Lower(r.strategy) # "nan")
         IN  IF Len(df_valid) = 0 THEN {EmptyFrame}
             ELSE {Frame({"sum", "mean", "count", "pips", "win_rate"}, o)
                   : o \in DescendingOrders(Groups(df_valid, "strategy"))}

analyze_by_currency_pair(d) ==
    IF Empty(d) \/ "currency_pair" \notin d.cols THEN {EmptyFrame}
    ELSE {Frame({"sum", "mean", "count", "pips", "win_rate"}, o)
          : o \in DescendingOrders(Groups(d.rows, "currency_pair"))}

category_order == <<"under5", "5to30", "30to60", "over60", "unknown">>

analyze_by_holding_time(d) ==
    IF Empty(d) \/ "holding_category" \notin d.cols THEN {EmptyFrame}
    ELSE {Frame({"sum", "mean", "count", "win_rate"},
                Reindex(Groups(d.rows, "holding_category"), category_order))}

analyze_by_day_of_week(d) ==
    IF Empty(d) \/ "day_of_week" \notin d.cols THEN {EmptyFrame}
    ELSE {Frame({"sum", "mean", "count", "win_rate"},
                Reindex(Groups(d.rows, "day_name"), DayNames))}

analyze_by_market_session(d) ==
    IF Empty(d) \/ "market_session" \notin d.cols THEN {EmptyFrame}
    ELSE {Frame({"sum", "mean", "count", "win_rate"}, o)
          : o \in DescendingOrders(Groups(d.rows, "market_session"))}

(***************************************************************************)
(* analyze_by_time_period: resample(period) on the date index.  A period   *)
(* is DaysPerPeriod consecutive dates; every period from the first to the  *)
(* last dated row is listed, an empty one with sum 0, count 0 and a NaN    *)
(* win rate; the NaT rows are in no period.                                *)
(***************************************************************************)
DaysPerPeriod == 2

period_of(date) == (Val(date) - 1) \div DaysPerPeriod

PeriodStats(rows, p) ==
    LET g == SelectSeq(rows, LAMBDA r : ~IsNaN(r.date) /\ period_of(r.date) = p)
        net == Column(g, "net_profit_loss_jpy")
        wins == Cardinality({i \in 1..Len(g) : g[i].is_win})
    IN  [key |-> p,
         sum |-> RoundAmount(SeriesSum(net)),
         count |-> Cardinality({i \in 1..Len(net) : ~IsNaN(net[i])}),
         win_rate |-> IF Len(g) = 0 THEN NaN ELSE Num(Round2(Ratio(wins, Len(g)))[1])]

\* With no dated row at all the resampler has no range to bin: the call
\* returns an empty frame or raises ValueError, depending on the pandas build.
analyze_by_time_period(d) ==
    IF Empty(d) \/ "date" \notin d.cols THEN {Ok(EmptyFrame)}
    ELSE LET ps == {period_of(d.rows[i].date)
                    : i \in {j \in 1..Len(d.rows) : ~IsNaN(d.rows[j].date)}}
         IN  IF ps = {}
             THEN {Ok(EmptyFrame), [raised |-> "ValueError", val |-> EmptyFrame]}
             ELSE LET lo == CHOOSE p \in ps : \A q \in ps : p <= q
                      hi == CHOOSE p \in ps : \A q \in ps : p >= q
                  IN  {Ok(Frame({"sum", "count", "win_rate"},
                                [i \in 1..(hi - lo + 1) |->
                                     PeriodStats(d.rows, lo + i - 1)]))}

(***************************************************************************)
(* TradeAnalyzer.get_top_losses(n): the n non-winning rows of smallest net *)
(* P&L, smallest first; nsmallest drops the NaN cells and keeps the frame  *)
(* order among equal values.                                               *)
(***************************************************************************)
RECURSIVE nsmallest(_, _)
nsmallest(n, rows) ==
    LET valued == {i \in 1..Len(rows) : ~IsNaN(rows[i].net_profit_loss_jpy)}
    IN  IF n = 0 \/ valued = {} THEN <<>>
        ELSE LET i == CHOOSE a \in valued : \A b \in valued :
                          \/ Val(rows[a].net_profit_loss_jpy) < Val(rows[b].net_profit_loss_jpy)
                          \/ /\ Val(rows[a].net_profit_loss_jpy) = Val(rows[b].net_profit_loss_jpy)
                             /\ a <= b
             IN  <<rows[i]>> \o nsmallest(n - 1, SubSeq(rows, 1, i - 1) \o SubSeq(rows, i + 1, Len(rows)))

get_top_losses(d, n) ==
    IF Empty(d) THEN EmptyFrame
    ELSE Frame(d.cols, nsmallest(n, SelectSeq(d.rows, LAMBDA r : ~r.is_win)))

(***************************************************************************)
(* The Trade Store worksheet and TradeDataManager.load_data.  sheet.cells  *)
(* is the grid get_all_values() returns: a sequence of rows of equal       *)
(* width, row 1 the header row, every cell a string.  The Japanese header  *)
(* names of the source are romanised.  Of the sixteen mapped columns the   *)
(* model keeps the ten that the analyzer and the editing pages read.       *)
(***************************************************************************)
COLUMN_MAPPING ==
    [trade_id |-> "torihiki-bango", currency_pair |-> "tsuuka-pea",
     type |-> "taipu", start_time |-> "kaishi-jikoku", date |-> "hizuke",
     pips |-> "pips", holding_time_sec |-> "hoyuu-jikan",
     net_profit_loss_jpy |-> "goukei-soneki", strategy |-> "shuhou",
     review_comment |-> "furikaeri"]

get_all_values(sh) == sh.cells

\* row_values(n): the cells of row n without the trailing empty ones
RECURSIVE TrimTrailing(_)
TrimTrailing(row) ==
    IF row = <<>> \/ row[Len(row)] # "" THEN row
    ELSE TrimTrailing(SubSeq(row, 1, Len(row) - 1))

row_values(sh, n) == IF Len(sh.cells) < n THEN <<>> ELSE TrimTrailing(sh.cells[n])

\* the loop over the headers: a blank header is skipped, a header seen before
\* gets its count as a suffix
RECURSIVE CleanFrom(_, _, _)
CleanFrom(headers, seen, cleaned) ==
    IF headers = <<>> THEN cleaned
    ELSE IF Head(headers) = "" \/ Strip(Head(headers)) = ""
    THEN CleanFrom(Tail(headers), seen, cleaned)
    ELSE LET header == Strip(Head(headers))
         IN  IF header \in DOMAIN seen
             THEN CleanFrom(Tail(headers),
                            [seen EXCEPT ![header] = seen[header] + 1],
                            Append(cleaned,
                                   header \o "_" \o ToString(seen[header] + 1)))
             ELSE CleanFrom(Tail(headers), seen @@ (header :> 0),
                            Append(cleaned, header))

cleaned_headers(headers) == CleanFrom(headers, <<>>, <<>>)

\* df.rename(columns=reverse_mapping)
SystemName(header) ==
    IF \E c \in DOMAIN COLUMN_MAPPING : COLUMN_MAPPING[c] = header
    THEN CHOOSE c \in DOMAIN COLUMN_MAPPING : COLUMN_MAPPING[c] = header
    ELSE header

\* pd.to_numeric(errors='coerce') and pd.to_datetime(errors='coerce') on the
\* cell strings of the model; a start time is "t<weekday>-<hour>"
to_numeric(s) ==
    CASE s = "1" -> Num(1) [] s = "2" -> Num(2) [] s = "4" -> Num(4)
      [] s = "3" -> Num(3) [] s = "-14" -> Num(-14) [] s = "60" -> Num(60)
      [] OTHER -> NaN

to_datetime(s) ==
    CASE s = "d1" -> Num(1) [] s = "d2" -> Num(2)
      [] s = "t0-10" -> <<0, 10>> [] s = "t1-17" -> <<1, 17>>
      [] OTHER -> NaT

\* astype(str).replace('nan', ''): an empty cell is NaN since replace('', nan)
NanToEmpty(s) == IF s \in {"", "nan"} THEN "" ELSE s

\* _convert_data_types and then _clean_data on one cell of column col
NormalizeCell(col, s) ==
    CASE col \in {"trade_id", "pips", "holding_time_sec", "net_profit_loss_jpy"}
             -> to_numeric(s)
      [] col \in {"start_time", "date"} -> to_datetime(s)
      [] col = "currency_pair" ->
             LET v == Upper(Strip(RemoveHash(Strip(RemoveHash(NanToEmpty(s))))))
             IN  IF v = "" THEN None ELSE v
      [] col = "type" ->
             LET v == Lower(Strip(RemoveHash(Strip(RemoveHash(NanToEmpty(s))))))
             IN  IF v = "" THEN None ELSE v
      [] col = "strategy" ->
             LET v == Strip(NanToEmpty(s))
             IN  IF v \in {"", "nan", "None"} THEN None ELSE v
      [] OTHER -> NanToEmpty(s)

\* astype(str) on a cell of a loaded frame: a null cell of an object column
\* is None and becomes the string 'None'
astype_str(v) == IF v = None THEN "None" ELSE v

\* _convert_data_types and then _clean_data on one cell of a frame that
\* load_data returned: numbers and timestamps convert to themselves
NormalizeValue(col, v) ==
    IF col \in {"trade_id", "pips", "holding_time_sec", "net_profit_loss_jpy",
                "start_time", "date"}
    THEN v
    ELSE NormalizeCell(col, astype_str(v))

\* both steps return the frame as it is when it has no rows
Normalizer(d) ==
    IF Empty(d) THEN d
    ELSE Frame(d.cols, [i \in 1..Len(d.rows) |->
                           [c \in DOMAIN d.rows[i] |-> NormalizeValue(c, d.rows[i][c])]])

LoadedColumns == DOMAIN COLUMN_MAPPING

\* pd.DataFrame(columns=list(COLUMN_MAPPING.keys()))
\* cached tells whether the call stored its frame in self.df: the two early
\* returns leave self.df as it was
NoRows == [raised |-> "none", columns |-> <<>>, table |-> <<>>,
           val |-> Frame(LoadedColumns, <<>>), cached |-> FALSE]

LoadError == [raised |-> "Exception", columns |-> <<>>, table |-> <<>>,
              val |-> Frame({}, <<>>), cached |-> FALSE]

\* load_data.  columns is df.columns after the rename, table the cells under
\* them row by row, val the frame of the mapped columns after conversion.
load_data(sh) ==
    LET cleaned == cleaned_headers(row_values(sh, 1))
        all_values == get_all_values(sh)
    IN  IF cleaned = <<>> THEN NoRows
        ELSE IF Len(all_values) <= 1 THEN NoRows
        ELSE IF Len(all_values[2]) # Len(cleaned) THEN LoadError
        ELSE LET columns == [j \in 1..Len(cleaned) |-> SystemName(cleaned[j])]
                 table == SelectSeq(Tail(all_values),
                                    LAMBDA r : \E j \in 1..Len(r) : r[j] # "")
                 At(c) == {j \in 1..Len(columns) : columns[j] = c}
                 Cell(r, c) == IF At(c) = {} THEN ""
                               ELSE r[CHOOSE j \in At(c) : TRUE]
             IN  IF Len(table) > 0
                    /\ \E c \in LoadedColumns : Cardinality(At(c)) > 1
                 THEN LoadError
                 ELSE [raised |-> "none", columns |-> columns, table |-> table,
                       cached |-> TRUE,
                       val |-> Frame(LoadedColumns,
                                     [i \in 1..Len(table) |->
                                         [c \in LoadedColumns |->
                                             NormalizeCell(c, Cell(table[i], c))]])]

\* the option lists of the trade log filters (app.py): sorted(set(...)) of
\* the non-null cells; a list is given as the set of its entries
NonNull(rows, col) == {rows[i][col] : i \in 1..Len(rows)} \ {None}

filter_options(d, stored) ==
    [currency_pairs |->
         IF "currency_pair" \in d.cols
         THEN {p \in NonNull(d.rows, "currency_pair") : p # "" /\ Strip(p) # ""}
         ELSE {},
     types |->
         IF "type" \in d.cols
         THEN {t \in NonNull(d.rows, "type") : t # "" /\ Strip(t) # ""}
         ELSE {},
     strategies |->
         LET combined == (IF "strategy" \in d.cols THEN NonNull(d.rows, "strategy")
                          ELSE {}) \cup DOMAIN stored
         IN  {Strip(n) : n \in {c \in combined :
                  Strip(c) # "" /\ Lower(Strip(c)) \notin {"nan", "none", ""}}}]

(***************************************************************************)
(* Inputs of the model.  A set of cells is a set of functions from column  *)
(* names; the columns a cell leaves out take their DefaultCells value.     *)
(***************************************************************************)
Hours == 0..23

DefaultCells ==
    [date |-> Num(1), net_profit_loss_jpy |-> Num(1), start_time |-> <<0, 10>>,
     holding_time_sec |-> Num(60), pips |-> Num(1), currency_pair |-> "USDJPY",
     type |-> "buy", strategy |-> None]

\* the frames of at most n rows whose rows take their cells from Cells
Frames(Cells, n) ==
    UNION {{Frame(CanonicalColumns,
                  [i \in 1..k |-> [trade_id |-> i] @@ f[i] @@ DefaultCells])
            : f \in [1..k -> Cells]} : k \in 0..n}

\* the same frames with row i dated i: all rows dated apart, in date order
DatedApart(frames) ==
    {Frame(d.cols, [i \in 1..Len(d.rows) |-> [date |-> Num(i)] @@ d.rows[i]])
     : d \in frames}

MetricCells ==
    [date : {Num(1), Num(2)}, net_profit_loss_jpy : {Num(-2), Num(0), Num(1), NaN}]
    \cup {[date |-> NaT, net_profit_loss_jpy |-> Num(-1)]}

SessionCells ==
    [start_time : {NaT, <<6, 10>>} \cup ({0} \X Hours)]
    \cup [holding_time_sec : {NaN, Num(0), Num(299), Num(300), Num(1799),
                              Num(1800), Num(3599), Num(3600)}]

StreakCells == [net_profit_loss_jpy : {Num(-2), Num(-1), Num(1)}]

OddStreakCells == [net_profit_loss_jpy : {Num(-2), Num(-1), Num(0), NaN, Num(1)}]

FilterCells ==
    [date : {Num(1), Num(2)}, net_profit_loss_jpy : {Num(-1), Num(1)},
     currency_pair : {"USDJPY", "EURUSD"},
     type : {"buy", "sell"}]
    \cup {[date |-> NaT], [net_profit_loss_jpy |-> Num(0)],
          [net_profit_loss_jpy |-> NaN], [currency_pair |-> None],
          [strategy |-> "S1"], [type |-> None]}

\* groupings: strategy cells that are names, blanks and null tokens; amounts
\* below the rounding step; null pair, time and holding-time cells
GroupCells ==
    [strategy : {"S1", "S2"}, net_profit_loss_jpy : {Num(4), Num(6), Num(-14)}]
    \cup {[strategy |-> ""], [strategy |-> " "], [strategy |-> "NaN"],
          [strategy |-> "none"]}
    \cup {[currency_pair |-> None],
          [currency_pair |-> "EURUSD", net_profit_loss_jpy |-> Num(4)]}
    \cup {[start_time |-> NaT],
          [start_time |-> <<1, 17>>, net_profit_loss_jpy |-> Num(6)]}
    \cup {[holding_time_sec |-> NaN],
          [holding_time_sec |-> Num(4000), net_profit_loss_jpy |-> NaN]}

\* worksheets with the mapped headers: the data rows differ in the strings
\* of the strategy, currency pair and type cells
TokenHeaders == <<"torihiki-bango", "shuhou", "tsuuka-pea", "taipu", "goukei-soneki">>

TokenRows ==
    {<<sg, "USDJPY", "buy", "4">>
     : sg \in {"", "nan", "NaN", "none", "None", "NONE", "S1", " S1"}}
    \cup {<<"S1", cp, "buy", "4">>
          : cp \in {"", "NaN", "none", "#USDJPY", "usdjpy", "EURUSD"}}
    \cup {<<"S1", "USDJPY", ty, "-14">> : ty \in {"", "NaN", "None", "BUY", "sell"}}

TokenSheets ==
    UNION {{<<TokenHeaders>> \o [i \in 1..k |-> <<ToString(i)>> \o f[i]]
            : f \in [1..k -> TokenRows]} : k \in 0..MaxSheetRows}

\* worksheets with arbitrary headers: blank ones, repeated ones, one that
\* looks like a suffixed name; the cell under column j of data row i is
\* "c<j>", so a column's cells tell which column it was
\* worksheets whose numeric and timestamp cells are empty, valid or not
\* parseable; a row of empty cells is a blank row
MalformedHeaders == <<"torihiki-bango", "kaishi-jikoku", "goukei-soneki">>

MalformedRows ==
    {<<id, st, net>> : id \in {"", "1", "x"}, st \in {"", "t0-10", "x"},
                       net \in {"", "4", "x"}}

MalformedSheets ==
    UNION {{<<MalformedHeaders>> \o r : r \in [1..k -> MalformedRows]}
           : k \in 0..MaxSheetRows}

HeaderNames == {"", " ", "shuhou", " shuhou", "shuhou_1", "memo"}

HeaderSheets ==
    UNION {{<<h>> \o [i \in 1..n |-> [j \in 1..k |-> "c" \o ToString(j)]]
            : h \in [1..k -> HeaderNames], n \in 0..1} : k \in 1..MaxHeaders}

\* a filters dict: each argument is <<>> (key absent) or <<value>>
Opt(k, o) == IF o = <<>> THEN <<>> ELSE k :> o[1]

\* the keys get_filtered_trades reads, and a key it does not know
FilterKeys ==
    {"currency_pair", "type", "strategy", "date_range", "profit_range", "only_losses"}

UnknownKey == "symbol"

FilterDict(cp, ty, sg, dr, pr, ol, un) ==
    Opt("currency_pair", cp) @@ Opt("type", ty) @@ Opt("strategy", sg)
    @@ Opt("date_range", dr) @@ Opt("profit_range", pr) @@ Opt("only_losses", ol)
    @@ Opt(UnknownKey, un)

NoFilters == <<>>

FewFilters == {NoFilters, "only_losses" :> TRUE, "date_range" :> <<1, 1>>}

FilterDicts ==
    {FilterDict(cp, ty, sg, dr, pr, ol, un) :
        cp \in {<<>>, <<None>>, <<"">>, <<Subete>>, <<"USDJPY">>, <<"GBPUSD">>},
        ty \in {<<>>, <<Subete>>, <<"sell">>},
        sg \in {<<>>, <<"">>, <<"S1">>},
        dr \in {<<>>, <<<<>>>>, <<<<1, 1>>>>, <<<<1, 2>>>>, <<<<2, 2>>>>, <<<<2, 1>>>>},
        pr \in {<<>>, <<<<0, 1>>>>},
        ol \in {<<>>, <<FALSE>>, <<TRUE>>},
        un \in {<<>>, <<"USDJPY">>}}

\* the dicts with at most MaxPredicates keys, and those with all six keys
FilterSpecs ==
    {f \in FilterDicts : Cardinality(DOMAIN f) <= MaxPredicates
                         \/ (DOMAIN f = FilterKeys /\ f["type"] = "sell"
                             /\ f["strategy"] = "S1" /\ f["only_losses"])}

TopNs == {1, 5}

(***************************************************************************)
(* The state machine: a caller constructs an analyzer over its frame and   *)
(* then calls the analyzer's operations, one after the other.              *)
(***************************************************************************)
NoRet == [op |-> "none", args |-> <<>>, val |-> <<>>]

\* a Notion database without pages and an empty ticket cache
NoNotion == [pages |-> <<>>, cache |-> <<>>]

\* no worksheet, no strategy catalog, no strategy manager and no Notion
\* database are in play
NoStore ==
    /\ sheet = [cells |-> <<>>, dropdown |-> <<>>]
    /\ storage = [strategies |-> <<>>, file |-> <<>>, clock |-> 0]
    /\ manager = <<>>
    /\ notion = NoNotion

InitOn(frames) ==
    /\ input \in frames
    /\ df = EmptyFrame
    /\ pc = "new"
    /\ ret = NoRet
    /\ raised = "none"
    /\ NoStore

\* an __init__ that keeps the caller's frame itself, self.df = df: the
\* columns _prepare_data adds and its sort show in the caller's frame
aliased(d, prepared) == prepared

\* self.df = df.copy(): the caller's frame d is not the frame prepared
copied(d, prepared) == d

\* TradeAnalyzer.__init__: self.df = df.copy(); self._prepare_data()
Construct ==
    /\ pc \in {"new", "loaded"}
    /\ df' \in _prepare_data(input)
    /\ input' = copied(input, df')
    /\ pc' = "ready"
    /\ UNCHANGED <<ret, raised>>
    /\ UNCHANGED store

Returns(op, args, val) ==
    /\ ret' = [op |-> op, args |-> args, val |-> val]
    /\ raised' = "none"
    /\ pc' = "returned"
    /\ UNCHANGED <<input, df>>
    /\ UNCHANGED store

Raises(op, args, exc) ==
    /\ ret' = [op |-> op, args |-> args, val |-> <<>>]
    /\ raised' = exc
    /\ pc' = "returned"
    /\ UNCHANGED <<input, df>>
    /\ UNCHANGED store

Outcome(op, args, x) ==
    IF x.raised = "none" THEN Returns(op, args, x.val) ELSE Raises(op, args, x.raised)

CalculateMetrics ==
    /\ pc = "ready"
    /\ Returns("calculate_metrics", <<>>, calculate_metrics(df))

AnalyzeByStrategy ==
    /\ pc = "ready"
    /\ \E v \in analyze_by_strategy(df) : Returns("analyze_by_strategy", <<>>, v)

AnalyzeByCurrencyPair ==
    /\ pc = "ready"
    /\ \E v \in analyze_by_currency_pair(df) :
           Returns("analyze_by_currency_pair", <<>>, v)

AnalyzeByTimePeriod ==
    /\ pc = "ready"
    /\ \E x \in analyze_by_time_period(df) : Outcome("analyze_by_time_period", <<>>, x)

AnalyzeByHoldingTime ==
    /\ pc = "ready"
    /\ \E v \in analyze_by_holding_time(df) :
           Returns("analyze_by_holding_time", <<>>, v)

AnalyzeByDayOfWeek ==
    /\ pc = "ready"
    /\ \E v \in analyze_by_day_of_week(df) : Returns("analyze_by_day_of_week", <<>>, v)

AnalyzeByMarketSession ==
    /\ pc = "ready"
    /\ \E v \in analyze_by_market_session(df) :
           Returns("analyze_by_market_session", <<>>, v)

GetConsecutiveLosses ==
    /\ pc = "ready"
    /\ \E v \in get_consecutive_losses(df) : Returns("get_consecutive_losses", <<>>, v)

GetTopLosses ==
    /\ pc = "ready"
    /\ \E n \in TopNs : Returns("get_top_losses", <<n>>, get_top_losses(df, n))

GetFilteredTrades(filters) ==
    /\ pc = "ready"
    /\ Outcome("get_filtered_trades", <<filters>>, get_filtered_trades(df, filters))

\* the caller takes the result and is ready for its next call
Resume ==
    /\ pc = "returned"
    /\ pc' = "ready"
    /\ ret' = NoRet
    /\ raised' = "none"
    /\ UNCHANGED <<input, df>>
    /\ UNCHANGED store

NextOn(filterSet) ==
    \/ Construct
    \/ CalculateMetrics
    \/ AnalyzeByStrategy
    \/ AnalyzeByCurrencyPair
    \/ AnalyzeByTimePeriod
    \/ AnalyzeByHoldingTime
    \/ AnalyzeByDayOfWeek
    \/ AnalyzeByMarketSession
    \/ GetConsecutiveLosses
    \/ GetTopLosses
    \/ \E filters \in filterSet : GetFilteredTrades(filters)
    \/ Resume

\* metrics: rows that differ in date and net P&L
Init == InitOn(Frames(MetricCells, MaxTrades))
Next == NextOn(FewFilters)
Spec == Init /\ [][Next]_vars

\* sessions and holding times: rows that differ in start_time or holding time
InitSession == InitOn(Frames(SessionCells, MaxSessionTrades))
SpecSession == InitSession /\ [][Next]_vars

\* streaks: longer collections, dated apart, that differ in net P&L
InitStreak ==
    InitOn(DatedApart(Frames(StreakCells, MaxStreakTrades)
                      \cup Frames(OddStreakCells, MaxOddTrades)))
SpecStreak == InitStreak /\ [][Next]_vars

(***************************************************************************)
(* A page loads the worksheet, builds an analyzer over the loaded frame    *)
(* and the option lists of its filters.                                    *)
(***************************************************************************)
LoadData ==
    /\ pc = "sheet"
    /\ LET x == load_data(sheet)
       IN  /\ input' = x.val
           /\ ret' = [op |-> "load_data", args |-> <<>>,
                      val |-> [columns |-> x.columns, table |-> x.table]]
           /\ raised' = x.raised
           /\ pc' = IF x.raised = "none" THEN "loaded" ELSE "failed"
    /\ UNCHANGED <<df, sheet, storage, manager, notion>>

\* the coercion and cleaning steps applied to the frame already loaded
Normalize ==
    /\ pc = "loaded"
    /\ input' = Normalizer(input)
    /\ ret' = [op |-> "normalize", args |-> <<>>, val |-> <<>>]
    /\ raised' = "none"
    /\ pc' = "normalized"
    /\ UNCHANGED <<df, sheet, storage, manager, notion>>

TradeLogOptions ==
    /\ pc = "ready"
    /\ Returns("trade_log_options", <<>>, filter_options(input, storage.strategies))

InitLoad ==
    /\ sheet \in [cells : {<<>>} \cup TokenSheets \cup HeaderSheets \cup MalformedSheets,
                   dropdown : {<<>>}]
    /\ storage = [strategies |-> <<>>, file |-> <<>>, clock |-> 0]
    /\ manager = <<>>
    /\ notion = NoNotion
    /\ input = EmptyFrame
    /\ df = EmptyFrame
    /\ pc = "sheet"
    /\ ret = NoRet
    /\ raised = "none"

NextLoad == LoadData \/ Normalize \/ TradeLogOptions \/ Next

SpecLoad == InitLoad /\ [][NextLoad]_vars

(***************************************************************************)
(* The cache of TradeDataManager.  Here input is self.df, the frame the    *)
(* manager holds, and the worksheet changes between the calls.  A call of  *)
(* the worksheet service succeeds or raises; readable is its outcome.      *)
(***************************************************************************)
\* self.df = None
NoCache == Frame({}, <<>>)

CacheSheets ==
    {<<>>,
     <<TokenHeaders>>,
     <<TokenHeaders, <<"1", "S1", "USDJPY", "buy", "4">>>>,
     <<TokenHeaders, <<"2", "S1", "USDJPY", "sell", "-14">>>>,
     <<TokenHeaders, <<"", "", "", "", "">>>>,
     <<<<"shuhou", "">>, <<"c1", "c2">>>>}

\* load_data as a method: the frame returned and self.df after the call
load_data_cached(cache, sh, readable) ==
    LET x == IF readable THEN load_data(sh) ELSE LoadError
    IN  [raised |-> x.raised, val |-> x.val,
         df |-> IF x.cached THEN x.val ELSE cache]

refresh_data(cache, sh, readable) == load_data_cached(cache, sh, readable)

get_cached_data(cache, sh, readable) ==
    IF cache = NoCache THEN load_data_cached(cache, sh, readable)
    ELSE [raised |-> "none", val |-> cache, df |-> cache]

CacheCall(op, args, x) ==
    /\ input' = x.df
    /\ ret' = [op |-> op, args |-> args, val |-> x.val]
    /\ raised' = x.raised
    /\ UNCHANGED <<df, pc, sheet, storage, manager, notion>>

LoadDataCall ==
    /\ pc = "cache"
    /\ \E readable \in BOOLEAN :
           CacheCall("load_data", <<readable>>,
                     load_data_cached(input, sheet, readable))

RefreshData ==
    /\ pc = "cache"
    /\ \E readable \in BOOLEAN :
           CacheCall("refresh_data", <<readable>>,
                     refresh_data(input, sheet, readable))

GetCachedData ==
    /\ pc = "cache"
    /\ \E readable \in BOOLEAN :
           CacheCall("get_cached_data", <<readable>>,
                     get_cached_data(input, sheet, readable))

\* somebody edits the worksheet
SheetEdited ==
    /\ pc = "cache"
    /\ \E cells \in CacheSheets : sheet' = [sheet EXCEPT !.cells = cells]
    /\ UNCHANGED <<input, df, pc, ret, raised, storage, manager, notion>>

InitCache ==
    /\ sheet \in [cells : CacheSheets, dropdown : {<<>>}]
    /\ storage = [strategies |-> <<>>, file |-> <<>>, clock |-> 0]
    /\ manager = <<>>
    /\ notion = NoNotion
    /\ input = NoCache
    /\ df = EmptyFrame
    /\ pc = "cache"
    /\ ret = NoRet
    /\ raised = "none"

NextCache == LoadDataCall \/ RefreshData \/ GetCachedData \/ SheetEdited

SpecCache == InitCache /\ [][NextCache]_vars

(***************************************************************************)
(* Editing the worksheet.  get_all_values gives the used range as rows of  *)
(* equal width; update_cell writes one cell and widens the range when the  *)
(* cell lies outside it.                                                   *)
(***************************************************************************)
MaxEdits == 2

Range(seq) == {seq[j] : j \in 1..Len(seq)}

IndexOf(seq, x) == CHOOSE j \in 1..Len(seq) : seq[j] = x /\ \A k \in 1..(j - 1) : seq[k] # x

Width(cells) == IF cells = <<>> THEN 0 ELSE Len(cells[1])

update_cell(cells, row, col, value) ==
    LET w == IF col > Width(cells) THEN col ELSE Width(cells)
        h == IF row > Len(cells) THEN row ELSE Len(cells)
    IN  [i \in 1..h |->
            [j \in 1..w |->
                IF i = row /\ j = col THEN value
                ELSE IF i <= Len(cells) /\ j <= Len(cells[i]) THEN cells[i][j]
                ELSE ""]]

_add_review_column(cells) ==
    LET headers == TrimTrailing(cells[1])
    IN  IF COLUMN_MAPPING.review_comment \notin Range(headers)
        THEN update_cell(cells, 1, Len(headers) + 1, COLUMN_MAPPING.review_comment)
        ELSE cells

\* the result is the worksheet after the call and the value returned
update_review_comment(cells, trade_id, comment) ==
    LET all_data == cells
        Failed(c) == [cells |-> c, val |-> FALSE]
    IN  IF Len(all_data) < 2 THEN Failed(cells)
        ELSE
        LET missing == COLUMN_MAPPING.review_comment \notin Range(all_data[1])
            added   == IF missing THEN _add_review_column(cells) ELSE cells
            headers == IF missing THEN TrimTrailing(added[1]) ELSE all_data[1]
        IN  IF COLUMN_MAPPING.review_comment \notin Range(headers) THEN Failed(added)
            ELSE IF COLUMN_MAPPING.trade_id \notin Range(headers) THEN Failed(added)
            ELSE
            LET comment_col_idx  == IndexOf(headers, COLUMN_MAPPING.review_comment)
                trade_id_col_idx == IndexOf(headers, COLUMN_MAPPING.trade_id)
                hits == {i \in 2..Len(all_data) :
                            /\ trade_id_col_idx <= Len(all_data[i])
                            /\ Strip(all_data[i][trade_id_col_idx]) = ToString(trade_id)}
            IN  IF hits = {} THEN Failed(added)
                ELSE LET target_row == CHOOSE i \in hits : \A k \in hits : i <= k
                     IN  [cells |-> update_cell(added, target_row, comment_col_idx, comment),
                          val |-> TRUE]

\* the methods TradeDataManager defines
TradeDataManagerMethods ==
    {"__init__", "load_data", "_convert_data_types", "_clean_data",
     "update_review_comment", "_add_review_column", "update_strategy_dropdown",
     "get_cached_data", "refresh_data"}

\* the save button of the trade log: the edited rows in order; a row's
\* review_comment or strategy is None when the user left it alone
RECURSIVE SaveFrom(_, _, _)
SaveFrom(cells, edits, changes_count) ==
    IF edits = <<>>
    THEN [cells |-> cells, changes_count |-> changes_count,
          message |-> IF changes_count > 0 THEN "success" ELSE "failed"]
    ELSE LET e == Head(edits)
             r == IF e.review_comment # None
                  THEN update_review_comment(cells, e.trade_id, e.review_comment)
                  ELSE [cells |-> cells, val |-> FALSE]
             n == IF r.val THEN changes_count + 1 ELSE changes_count
         IN  IF e.strategy # None /\ "update_strategy" \notin TradeDataManagerMethods
             THEN \* AttributeError, caught by the handler around the loop
                  [cells |-> r.cells, changes_count |-> n, message |-> "error"]
             ELSE SaveFrom(r.cells, Tail(edits), n)

save_changes(cells, edits) == SaveFrom(cells, edits, 0)

\* worksheets to edit: with and without the review-comment column, without
\* the trade-id column, with a used column that has no header
EditHeaders ==
    {<<"torihiki-bango", "shuhou", "furikaeri">>, <<"torihiki-bango", "shuhou", "">>,
     <<"memo", "shuhou", "furikaeri">>, <<"torihiki-bango", "furikaeri", "shuhou">>}

EditRows == {<<id, a, b>> : id \in {"1", "2"}, a \in {"S1"}, b \in {"", "old"}}

EditSheets ==
    UNION {{<<h>> \o r : h \in EditHeaders, r \in [1..k -> EditRows]}
           : k \in 0..MaxSheetRows}

TradeIds == 1..3

Comments == {"", "good"}

Edits == [trade_id : 1..2, review_comment : {None, "good"}, strategy : {None, "S2"}]
             \ [trade_id : 1..2, review_comment : {None}, strategy : {None}]

EditLists == UNION {[1..k -> Edits] : k \in 1..MaxEdits}

UpdateReviewComment ==
    /\ pc = "editing"
    /\ \E trade_id \in TradeIds, comment \in Comments :
           LET r == update_review_comment(sheet.cells, trade_id, comment)
           IN  /\ sheet' = [sheet EXCEPT !.cells = r.cells]
               /\ ret' = [op |-> "update_review_comment",
                          args |-> <<trade_id, comment>>, val |-> r.val]
    /\ pc' = "edited"
    /\ raised' = "none"
    /\ UNCHANGED <<input, df, storage, manager, notion>>

SaveChanges ==
    /\ pc = "editing"
    /\ \E edits \in EditLists :
           LET r == save_changes(sheet.cells, edits)
           IN  /\ sheet' = [sheet EXCEPT !.cells = r.cells]
               /\ ret' = [op |-> "save_changes", args |-> <<edits>>,
                          val |-> [message |-> r.message,
                                   changes_count |-> r.changes_count]]
    /\ pc' = "saved"
    /\ raised' = "none"
    /\ UNCHANGED <<input, df, storage, manager, notion>>

InitEdit ==
    /\ sheet \in [cells : EditSheets, dropdown : {<<>>}]
    /\ storage = [strategies |-> <<>>, file |-> <<>>, clock |-> 0]
    /\ manager = <<>>
    /\ notion = NoNotion
    /\ input = EmptyFrame
    /\ df = EmptyFrame
    /\ pc = "editing"
    /\ ret = NoRet
    /\ raised = "none"

NextEdit == UpdateReviewComment \/ SaveChanges

SpecEdit == InitEdit /\ [][NextEdit]_vars

(***************************************************************************)
(* StrategyStorage.  strategies is the dictionary in memory, file is what  *)
(* the JSON file holds, clock is the time: datetime.now() reads the next   *)
(* instant.  _save_to_file succeeds or fails (the open or the dump raises, *)
(* the method returns False); ok is its outcome.                           *)
(***************************************************************************)
MaxClock == 3

_save_to_file(st, ok) == IF ok THEN [st EXCEPT !.file = st.strategies] ELSE st

\* a create_strategy without the test for an existing name
create_strategy_overwriting(st, strategy_name, rules, ok) ==
    LET now == st.clock + 1
        entry == [name |-> strategy_name, rules |-> rules,
                  created_time |-> now, last_edited_time |-> now]
        strategies == (strategy_name :> entry) @@ st.strategies
    IN  [storage |-> _save_to_file([st EXCEPT !.strategies = strategies,
                                               !.clock = now], ok),
         val |-> ok]

create_strategy(st, strategy_name, rules, ok) ==
    IF strategy_name \in DOMAIN st.strategies THEN [storage |-> st, val |-> FALSE]
    ELSE LET now == st.clock + 1
             entry == [name |-> strategy_name, rules |-> rules,
                       created_time |-> now, last_edited_time |-> now]
             strategies == (strategy_name :> entry) @@ st.strategies
         IN  [storage |-> _save_to_file([st EXCEPT !.strategies = strategies,
                                                    !.clock = now], ok),
              val |-> ok]

update_strategy_rules(st, strategy_name, rules, ok) ==
    IF strategy_name \notin DOMAIN st.strategies THEN [storage |-> st, val |-> FALSE]
    ELSE LET now == st.clock + 1
             strategies == [st.strategies EXCEPT
                                ![strategy_name].rules = rules,
                                ![strategy_name].last_edited_time = now]
         IN  [storage |-> _save_to_file([st EXCEPT !.strategies = strategies,
                                                    !.clock = now], ok),
              val |-> ok]

sync_strategy(st, strategy_name, rules, ok) ==
    IF strategy_name \in DOMAIN st.strategies
    THEN update_strategy_rules(st, strategy_name, rules, ok)
    ELSE create_strategy(st, strategy_name, rules, ok)

delete_strategy(st, strategy_name, ok) ==
    IF strategy_name \notin DOMAIN st.strategies THEN [storage |-> st, val |-> FALSE]
    ELSE LET strategies == [n \in DOMAIN st.strategies \ {strategy_name}
                                |-> st.strategies[n]]
         IN  [storage |-> _save_to_file([st EXCEPT !.strategies = strategies], ok),
              val |-> ok]

CatalogNames == {"S1", "S2"}

CatalogRules == {"", "r1"}

\* a call of the catalog: the storage after it and the value it returned
CatalogCall(op, args, r) ==
    /\ storage' = r.storage
    /\ ret' = [op |-> op, args |-> args, val |-> r.val]
    /\ raised' = "none"
    /\ UNCHANGED <<input, df, pc, sheet, manager, notion>>

CreateStrategy ==
    /\ pc = "catalog" /\ storage.clock < MaxClock
    /\ \E name \in CatalogNames, rules \in CatalogRules, ok \in BOOLEAN :
           CatalogCall("create_strategy", <<name, rules>>,
                       create_strategy(storage, name, rules, ok))

UpdateStrategyRules ==
    /\ pc = "catalog" /\ storage.clock < MaxClock
    /\ \E name \in CatalogNames, rules \in CatalogRules, ok \in BOOLEAN :
           CatalogCall("update_strategy_rules", <<name, rules>>,
                       update_strategy_rules(storage, name, rules, ok))

SyncStrategy ==
    /\ pc = "catalog" /\ storage.clock < MaxClock
    /\ \E name \in CatalogNames, rules \in CatalogRules, ok \in BOOLEAN :
           CatalogCall("sync_strategy", <<name, rules>>,
                       sync_strategy(storage, name, rules, ok))

DeleteStrategy ==
    /\ pc = "catalog"
    /\ \E name \in CatalogNames, ok \in BOOLEAN :
           CatalogCall("delete_strategy", <<name>>,
                       delete_strategy(storage, name, ok))

\* StrategyStorage.__init__ when the file does not exist yet
InitCatalog ==
    /\ storage = [strategies |-> <<>>, file |-> <<>>, clock |-> 0]
    /\ sheet = [cells |-> <<>>, dropdown |-> <<>>]
    /\ manager = <<>>
    /\ notion = NoNotion
    /\ input = EmptyFrame
    /\ df = EmptyFrame
    /\ pc = "catalog"
    /\ ret = NoRet
    /\ raised = "none"

NextCatalog == CreateStrategy \/ UpdateStrategyRules \/ SyncStrategy \/ DeleteStrategy

SpecCatalog == InitCatalog /\ [][NextCatalog]_vars

(***************************************************************************)
(* StrategyManager.  manager is StrategyManager.strategies: for each name  *)
(* its source and its rules (the two timestamps copied from the catalog    *)
(* are left out, nothing reads them).  The loaded frame is the df of the   *)
(* sheets manager.                                                         *)
(***************************************************************************)
\* the strings of the model in the order of their code points
CodePointOrder ==
    <<"", " ", " S1", "NONE", "NaN", "None", "S1", "S2", "nan", "none">>

sorted(names) == SelectSeq(CodePointOrder, LAMBDA n : n \in names)

load_all_strategies(st, d) ==
    LET local == [n \in DOMAIN st.strategies |->
                     [source |-> "local", rules |-> st.strategies[n].rules]]
        gsheet_strategies ==
            IF "strategy" \notin d.cols THEN {}
            ELSE {Strip(d.rows[i].strategy) :
                    i \in {k \in 1..Len(d.rows) : d.rows[k].strategy # None}}
        found == {n \in gsheet_strategies :
                    n # "" /\ Lower(n) # "nan" /\ n \notin DOMAIN local}
    IN  [n \in DOMAIN local \cup found |->
            IF n \in DOMAIN local THEN local[n]
            ELSE [source |-> "sheets", rules |-> ""]]

get_strategy_list(mgr) == sorted(DOMAIN mgr)

\* api is what the worksheet service does: "ok"; "fail", batch_update
\* raises and update_strategy_dropdown returns False; "raise", the call of
\* update_strategy_dropdown itself raises
ApiOutcomes == {"ok", "fail", "raise"}

MaxManagerEdits == 2

update_strategy_dropdown(sh, strategies, api) ==
    LET headers == row_values(sh, 1)
        cells == IF COLUMN_MAPPING.strategy \notin Range(headers)
                 THEN update_cell(sh.cells, 1, Len(headers) + 1,
                                  COLUMN_MAPPING.strategy)
                 ELSE sh.cells
    IN  IF strategies = <<>> \/ api = "fail"
        THEN [sheet |-> [sh EXCEPT !.cells = cells], val |-> FALSE]
        ELSE [sheet |-> [cells |-> cells, dropdown |-> strategies],
              val |-> TRUE]

\* an _update_sheets_dropdown without its exception handlers
_update_sheets_dropdown_unguarded(sh, mgr, api) ==
    LET strategies_list == get_strategy_list(mgr)
    IN  IF strategies_list = <<>> THEN [sheet |-> sh, raised |-> "none"]
        ELSE IF api = "raise" THEN [sheet |-> sh, raised |-> "Exception"]
        ELSE [sheet |-> update_strategy_dropdown(sh, strategies_list, api).sheet,
              raised |-> "none"]

_update_sheets_dropdown(sh, mgr, api) ==
    LET strategies_list == get_strategy_list(mgr)
    IN  IF strategies_list = <<>> THEN [sheet |-> sh, raised |-> "none"]
        ELSE IF api = "raise" THEN [sheet |-> sh, raised |-> "none"]
        ELSE [sheet |-> update_strategy_dropdown(sh, strategies_list, api).sheet,
              raised |-> "none"]

\* what a call of the manager leaves: storage, manager, sheet, the value
\* returned and the exception raised
ManagerResult(st, mgr, sh, val, exc) ==
    [storage |-> st, manager |-> mgr, sheet |-> sh,
     val |-> IF exc = "none" THEN val ELSE None, raised |-> exc]

save_strategy_rules(st, mgr, sh, strategy_name, rules, ok, api) ==
    LET r == sync_strategy(st, strategy_name, rules, ok)
    IN  IF r.val
        THEN LET entry == IF strategy_name \in DOMAIN mgr
                          THEN [mgr[strategy_name] EXCEPT !.rules = rules]
                          ELSE [source |-> "local", rules |-> rules]
                 strategies == (strategy_name :> entry) @@ mgr
                 push == _update_sheets_dropdown(sh, strategies, api)
             IN  ManagerResult(r.storage, strategies, push.sheet, TRUE, push.raised)
        ELSE ManagerResult(r.storage, mgr, sh, FALSE, "none")

add_new_strategy(st, mgr, sh, strategy_name, rules, ok, api) ==
    IF strategy_name = "" \/ Strip(strategy_name) = ""
    THEN ManagerResult(st, mgr, sh, FALSE, "none")
    ELSE LET name == Strip(strategy_name)
         IN  IF name \in DOMAIN mgr THEN ManagerResult(st, mgr, sh, FALSE, "none")
             ELSE LET r == create_strategy(st, name, rules, ok)
                  IN  IF r.val
                      THEN LET strategies ==
                                   (name :> [source |-> "local", rules |-> rules]) @@ mgr
                               push == _update_sheets_dropdown(sh, strategies, api)
                           IN  ManagerResult(r.storage, strategies, push.sheet,
                                             TRUE, push.raised)
                      ELSE ManagerResult(r.storage, mgr, sh, FALSE, "none")

ManagerNames == {"S1", " S1", "none", " "}

ManagerRules == {"r1"}

ManagerCells == [strategy : {" S1", "none", "NaN"}]

ManagerSheets == {<<<<"torihiki-bango">>>>, <<<<"torihiki-bango", "shuhou">>>>}

ManagerCall(op, args, r) ==
    /\ storage' = r.storage
    /\ manager' = r.manager
    /\ sheet' = r.sheet
    /\ ret' = [op |-> op, args |-> args, val |-> r.val]
    /\ raised' = r.raised
    /\ UNCHANGED <<input, df, pc, notion>>

LoadAllStrategies ==
    /\ pc = "managing"
    /\ manager' = load_all_strategies(storage, input)
    /\ ret' = [op |-> "load_all_strategies", args |-> <<>>, val |-> manager']
    /\ raised' = "none"
    /\ UNCHANGED <<input, df, pc, sheet, storage, notion>>

GetStrategyList ==
    /\ pc = "managing"
    /\ ret' = [op |-> "get_strategy_list", args |-> <<>>,
               val |-> get_strategy_list(manager)]
    /\ raised' = "none"
    /\ UNCHANGED <<input, df, pc, sheet, storage, manager, notion>>

\* the strategy page: load the strategies, list them, push the list
StrategyManagementPage ==
    /\ pc = "managing"
    /\ \E api \in ApiOutcomes :
           LET strategies_data == load_all_strategies(storage, input)
               strategies == get_strategy_list(strategies_data)
           IN  /\ manager' = strategies_data
               /\ sheet' = IF strategies = <<>> \/ api = "raise" THEN sheet
                           ELSE update_strategy_dropdown(sheet, strategies, api).sheet
               /\ ret' = [op |-> "strategy_management_page", args |-> <<api>>,
                          val |-> strategies]
    /\ raised' = "none"
    /\ UNCHANGED <<input, df, pc, storage, notion>>

SaveStrategyRules ==
    /\ pc = "managing" /\ storage.clock < MaxManagerEdits
    /\ \E name \in ManagerNames, rules \in ManagerRules,
          ok \in BOOLEAN, api \in ApiOutcomes :
           ManagerCall("save_strategy_rules", <<name, rules, ok, api>>,
                       save_strategy_rules(storage, manager, sheet, name, rules, ok, api))

AddNewStrategy ==
    /\ pc = "managing" /\ storage.clock < MaxManagerEdits
    /\ \E name \in ManagerNames, rules \in ManagerRules,
          ok \in BOOLEAN, api \in ApiOutcomes :
           ManagerCall("add_new_strategy", <<name, rules, ok, api>>,
                       add_new_strategy(storage, manager, sheet, name, rules, ok, api))

InitManager ==
    /\ storage = [strategies |-> <<>>, file |-> <<>>, clock |-> 0]
    /\ sheet \in [cells : ManagerSheets, dropdown : {<<>>}]
    /\ manager = <<>>
    /\ notion = NoNotion
    /\ input \in Frames(ManagerCells, 1)
    /\ df = EmptyFrame
    /\ pc = "managing"
    /\ ret = NoRet
    /\ raised = "none"

NextManager ==
    \/ LoadAllStrategies
    \/ GetStrategyList
    \/ StrategyManagementPage
    \/ SaveStrategyRules
    \/ AddNewStrategy

SpecManager == InitManager /\ [][NextManager]_vars

\* groupings: rows that differ in the keys of the five dimensions
InitGroup == InitOn(Frames(GroupCells, MaxGroupTrades))
SpecGroup == InitGroup /\ [][Next]_vars

(***************************************************************************)
(* SheetsClient.  A row of the sheet is <<the value column A shows, the    *)
(* Notion URL its cell links to or "">>; the first row is the header row   *)
(* that __init__ writes.  A batch is a list of trades, each with a ticket  *)
(* number.  readOk is whether col_values succeeds in get_existing_tickets, *)
(* addOks[i] whether the calls of add_trade_row for the i-th trade do.     *)
(***************************************************************************)
MaxSyncRows == 3    \* data rows of the sheet before a sync
MaxBatch == 2       \* trades of a batch

SyncTickets == {1, 2}

SyncHeader == <<"torihiki-bango", "tsuuka-pea">>

\* str(ticket) on the tickets of the model
str(ticket) == CASE ticket = 1 -> "1" [] ticket = 2 -> "2" [] OTHER -> "0"

\* Worksheet.col_values(1): column A down to its last cell that is not blank
RECURSIVE col_values(_)
col_values(cells) ==
    IF cells = <<>> THEN <<>>
    ELSE IF cells[Len(cells)][1] = "" THEN col_values(SubSeq(cells, 1, Len(cells) - 1))
    ELSE [i \in 1..Len(cells) |-> cells[i][1]]

get_existing_tickets(cells, readOk) ==
    IF readOk THEN SelectSeq(Tail(col_values(cells)), LAMBDA t : t # "") ELSE <<>>

\* Worksheet.update of the range of row n
update_row(cells, n, row) ==
    IF n <= Len(cells) THEN [cells EXCEPT ![n] = row] ELSE Append(cells, row)

add_trade_row(cells, trade, notion_url, ok) ==
    IF ok
    THEN [cells |-> update_row(cells, Len(col_values(cells)) + 1,
                               <<str(trade.ticket), notion_url>>),
          val |-> TRUE]
    ELSE [cells |-> cells, val |-> FALSE]

\* the loop of sync_trades from the i-th trade on
RECURSIVE sync_from(_, _, _, _, _, _, _)
sync_from(cells, stats, trades, i, existing_tickets, ticket_to_url, addOks) ==
    IF i > Len(trades) THEN [cells |-> cells, val |-> stats]
    ELSE LET ticket == str(trades[i].ticket)
         IN  IF \E k \in 1..Len(existing_tickets) : existing_tickets[k] = ticket
             THEN sync_from(cells, [stats EXCEPT !.existing = @ + 1], trades, i + 1,
                            existing_tickets, ticket_to_url, addOks)
             ELSE LET notion_url == IF ticket \in DOMAIN ticket_to_url
                                    THEN ticket_to_url[ticket] ELSE ""
                      r == add_trade_row(cells, trades[i], notion_url, addOks[i])
                  IN  sync_from(r.cells,
                                IF r.val THEN [stats EXCEPT !.new = @ + 1] ELSE stats,
                                trades, i + 1, existing_tickets, ticket_to_url, addOks)

sync_trades(cells, trades, ticket_to_url, readOk, addOks) ==
    sync_from(cells, [new |-> 0, existing |-> 0], trades, 1,
              get_existing_tickets(cells, readOk), ticket_to_url, addOks)

Batches == UNION {[1..k -> [ticket : SyncTickets]] : k \in 0..MaxBatch}

\* ticket_to_url: None, or what NotionClient.sync_trades returned
TicketUrls == {<<>>, ("1" :> "url1") @@ ("2" :> "url2")}

SyncSheets ==
    {<<SyncHeader>>, <<SyncHeader, <<"1", "">>>>,
     <<SyncHeader, <<"", "USDJPY">>, <<"2", "url2">>>>}

SyncTrades ==
    /\ pc = "syncing" /\ Len(sheet.cells) <= MaxSyncRows
    /\ \E trades \in Batches, ticket_to_url \in TicketUrls, readOk \in BOOLEAN,
          addOks \in [1..MaxBatch -> BOOLEAN] :
           LET r == sync_trades(sheet.cells, trades, ticket_to_url, readOk, addOks)
           IN  /\ sheet' = [sheet EXCEPT !.cells = r.cells]
               /\ ret' = [op |-> "sync_trades",
                          args |-> <<trades, ticket_to_url, readOk, addOks>>,
                          val |-> r.val]
    /\ raised' = "none"
    /\ UNCHANGED <<input, df, pc, storage, manager, notion>>

InitSync ==
    /\ sheet \in [cells : SyncSheets, dropdown : {<<>>}]
    /\ storage = [strategies |-> <<>>, file |-> <<>>, clock |-> 0]
    /\ manager = <<>>
    /\ notion = NoNotion
    /\ input = EmptyFrame
    /\ df = EmptyFrame
    /\ pc = "syncing"
    /\ ret = NoRet
    /\ raised = "none"

NextSync == SyncTrades

SpecSync == InitSync /\ [][NextSync]_vars

(***************************************************************************)
(* NotionClient.  pages lists the tickets (titles) of the pages of the     *)
(* database in the order of their creation; cache is _local_ticket_to_url, *)
(* loaded from the cache file by __init__.  listOk is whether the listing  *)
(* of the database succeeds, api[i].find whether the lookups of the i-th   *)
(* trade's ticket reach the database (find_page_by_ticket returns None     *)
(* when they raise), api[i].create whether pages.create succeeds.          *)
(***************************************************************************)
MaxPages == 2       \* pages of the database before a sync

\* the id Notion gives the page of a ticket
page_id(ticket) == CASE ticket = "1" -> "p1" [] ticket = "2" -> "p2" [] OTHER -> "p0"

\* get_page_url: the URL of a page id; of a URL, a URL of no page
get_page_url(id) == CASE id = "p1" -> "u1" [] id = "p2" -> "u2" [] id = "p0" -> "u0"
                      [] OTHER -> "u-of-url"

PageTickets(n) == {n.pages[k] : k \in 1..Len(n.pages)}

get_existing_tickets_with_urls(n, listOk) ==
    IF ~listOk THEN [notion |-> n, val |-> <<>>]
    ELSE LET ticket_to_url == [t \in PageTickets(n) |-> get_page_url(page_id(t))]
             merged == ticket_to_url @@ n.cache
         IN  [notion |-> [n EXCEPT !.cache = merged],
              val |-> IF DOMAIN ticket_to_url = {} /\ DOMAIN merged # {}
                      THEN merged ELSE ticket_to_url]

find_page_by_ticket(n, ticket, findOk) ==
    IF findOk /\ ticket \in PageTickets(n) THEN page_id(ticket) ELSE None

create_trade_record(n, trade, findOk, createOk) ==
    LET ticket_str == str(trade.ticket)
        existing == find_page_by_ticket(n, ticket_str, findOk)
    IN  IF ticket_str \in DOMAIN n.cache
        THEN [notion |-> n, val |-> n.cache[ticket_str]]
        ELSE IF existing # None
        THEN [notion |-> [n EXCEPT !.cache = (ticket_str :> get_page_url(existing)) @@ @],
              val |-> existing]
        ELSE IF createOk
        THEN [notion |-> [pages |-> Append(n.pages, ticket_str),
                          cache |-> (ticket_str :> get_page_url(page_id(ticket_str)))
                                        @@ n.cache],
              val |-> page_id(ticket_str)]
        ELSE [notion |-> n, val |-> None]

\* the loop of NotionClient.sync_trades from the i-th trade on
RECURSIVE notion_sync_from(_, _, _, _, _, _, _)
notion_sync_from(n, stats, ticket_to_url, trades, i, existing_tickets, api) ==
    IF i > Len(trades) THEN [notion |-> n, val |-> <<stats, ticket_to_url>>]
    ELSE LET ticket == str(trades[i].ticket)
             found_page == find_page_by_ticket(n, ticket, api[i].find)
             r == create_trade_record(n, trades[i], api[i].find, api[i].create)
         IN  IF ticket \in existing_tickets
             THEN notion_sync_from(n, [stats EXCEPT !.skipped = @ + 1], ticket_to_url,
                                   trades, i + 1, existing_tickets, api)
             ELSE IF found_page # None
             THEN notion_sync_from(n, [stats EXCEPT !.skipped = @ + 1],
                                   (ticket :> get_page_url(found_page)) @@ ticket_to_url,
                                   trades, i + 1, existing_tickets, api)
             ELSE IF r.val # None
             THEN notion_sync_from(r.notion, [stats EXCEPT !.new = @ + 1],
                                   (ticket :> get_page_url(r.val)) @@ ticket_to_url,
                                   trades, i + 1, existing_tickets, api)
             ELSE notion_sync_from(r.notion, [stats EXCEPT !.failed = @ + 1],
                                   ticket_to_url, trades, i + 1, existing_tickets, api)

notion_sync_trades(n, trades, listOk, api) ==
    LET x == get_existing_tickets_with_urls(n, listOk)
    IN  notion_sync_from(x.notion,
                         [total |-> Len(trades), new |-> 0, skipped |-> 0, failed |-> 0],
                         x.val, trades, 1, DOMAIN x.val, api)

\* the cache file holds no ticket, a ticket, or both tickets
TicketCaches == {<<>>, "1" :> "u1", ("1" :> "u1") @@ ("2" :> "u2")}

NotionSyncTrades ==
    /\ pc = "notion" /\ Len(notion.pages) <= MaxPages
    /\ \E trades \in Batches, listOk \in BOOLEAN,
          api \in [1..MaxBatch -> [find : BOOLEAN, create : BOOLEAN]] :
           LET r == notion_sync_trades(notion, trades, listOk, api)
           IN  /\ notion' = r.notion
               /\ ret' = [op |-> "sync_trades", args |-> <<trades, listOk, api>>,
                          val |-> r.val]
    /\ raised' = "none"
    /\ UNCHANGED <<input, df, pc, sheet, storage, manager>>

InitNotion ==
    /\ notion \in [pages : {<<>>, <<"1">>, <<"2">>}, cache : TicketCaches]
    /\ sheet = [cells |-> <<>>, dropdown |-> <<>>]
    /\ storage = [strategies |-> <<>>, file |-> <<>>, clock |-> 0]
    /\ manager = <<>>
    /\ input = EmptyFrame
    /\ df = EmptyFrame
    /\ pc = "notion"
    /\ ret = NoRet
    /\ raised = "none"

NextNotion == NotionSyncTrades

SpecNotion == InitNotion /\ [][NextNotion]_vars

\* fixed orders: rows dated apart whose weekdays and holding buckets come in
\* any order; Friday sorts before Monday by name, and the over-1-hour label
\* before the under-5-minutes label
MaxOrderTrades == 3

OrderCells ==
    [start_time : {NaT, <<2, 10>>, <<4, 10>>, <<6, 10>>}]
    \cup [holding_time_sec : {NaN, Num(300), Num(1800), Num(3600)}]

InitOrder == InitOn(DatedApart(Frames(OrderCells, MaxOrderTrades)))
SpecOrder == InitOrder /\ [][Next]_vars

\* filters: rows that differ in every filtered column, and the filter dicts
InitFilter == InitOn(Frames(FilterCells, MaxFilterTrades))
NextFilter == NextOn(FilterSpecs)
SpecFilter == InitFilter /\ [][NextFilter]_vars

(***************************************************************************)
(* What the claims speak of, read off the caller's frame and the returned  *)
(* value rather than off the analyzer's derived columns.                   *)
(***************************************************************************)
Called(op) == pc = "returned" /\ ret.op = op
NonEmptyInput == Len(input.rows) > 0
EmptyInput == Len(input.rows) = 0

NetOf(r) == r.net_profit_loss_jpy
IsWinning(r) == ~IsNaN(NetOf(r)) /\ Val(NetOf(r)) > 0
IsLosing(r) == ~IsNaN(NetOf(r)) /\ Val(NetOf(r)) < 0
IsBreakEven(r) == ~IsNaN(NetOf(r)) /\ Val(NetOf(r)) = 0

\* sum of f over a finite set of row positions
RECURSIVE SumOver(_, _)
SumOver(S, f) ==
    IF S = {} THEN 0
    ELSE LET i == CHOOSE x \in S : TRUE IN f[i] + SumOver(S \ {i}, f)

GrossProfit(rows) ==
    SumOver({i \in 1..Len(rows) : IsWinning(rows[i])},
            [i \in 1..Len(rows) |-> IF IsNaN(NetOf(rows[i])) THEN 0 ELSE Val(NetOf(rows[i]))])

GrossLoss(rows) ==
    SumOver({i \in 1..Len(rows) : IsLosing(rows[i])},
            [i \in 1..Len(rows) |-> IF IsNaN(NetOf(rows[i])) THEN 0 ELSE -Val(NetOf(rows[i]))])

\* a/b = c/d for quotients with positive denominators
SameQuotient(x, y) == x[1] * y[2] = y[1] * x[2]

MetricKeys ==
    {"total_trades", "winning_trades", "losing_trades", "win_rate", "profit_factor",
     "avg_pips", "max_drawdown", "total_net_profit", "total_profit", "total_loss"}

(***************************************************************************)
(* C1.  A trade whose start_time hour is 22 or 23 is assigned the session  *)
(* New York, not London.                                                   *)
(***************************************************************************)
C1_LateHoursAreNewYork ==
    pc # "new" =>
        \A i \in 1..Len(df.rows) :
            (~IsNaN(df.rows[i].start_time) /\ df.rows[i].start_time[2] \in {22, 23})
                => df.rows[i].market_session = "NewYork"

(***************************************************************************)
(* C2.  calculate_metrics on an empty collection returns every metric key, *)
(* with total_trades = 0, win_rate = 0, max_drawdown = 0 and a             *)
(* profit_factor that is 0 or flagged undefined (inf), never NaN.          *)
(***************************************************************************)
C2_EmptyMetricsAreZero ==
    (Called("calculate_metrics") /\ EmptyInput) =>
        /\ raised = "none"
        /\ DOMAIN ret.val = MetricKeys
        /\ ret.val["total_trades"] = 0
        /\ ret.val["win_rate"][1] = 0
        /\ ret.val["max_drawdown"] = Num(0)
        /\ (ret.val["profit_factor"] = Inf \/ ret.val["profit_factor"][1] = 0)

(***************************************************************************)
(* C3.  On an empty collection every analytics operation returns an empty  *)
(* or zero result and never raises, whatever the filter specification.     *)
(***************************************************************************)
IsEmptyResult(r) ==
    CASE r.op = "calculate_metrics" -> TRUE
      [] r.op = "get_consecutive_losses" ->
             /\ r.val.max_consecutive = 0
             /\ r.val.max_loss_amount = Num(0)
             /\ r.val.loss_streaks = <<>>
      [] OTHER -> Len(r.val.rows) = 0

C3_EmptyNeverRaises ==
    (pc = "returned" /\ EmptyInput) => (raised = "none" /\ IsEmptyResult(ret))

(***************************************************************************)
(* C4.  For a non-empty collection profit_factor is +inf iff total_loss =  *)
(* 0 and total_profit > 0, and total_profit / total_loss in every other    *)
(* case.                                                                   *)
(***************************************************************************)
C4_InfIffNoLossAndProfit ==
    (Called("calculate_metrics") /\ NonEmptyInput) =>
        LET tp == GrossProfit(input.rows)
            tl == GrossLoss(input.rows)
        IN  /\ (ret.val.profit_factor = Inf) <=> (tl = 0 /\ tp > 0)
            /\ ~(tl = 0 /\ tp > 0) =>
                   (tl > 0 /\ SameQuotient(ret.val.profit_factor, Ratio(tp, tl)))

(***************************************************************************)
(* C4, amended.  For a non-empty collection profit_factor is +inf iff      *)
(* total_loss = 0, whatever total_profit is (so also for a collection of   *)
(* break-even or null-P&L trades only); when total_loss > 0 it is          *)
(* total_profit / total_loss.                                              *)
(***************************************************************************)
C4_InfIffNoLoss ==
    (Called("calculate_metrics") /\ NonEmptyInput) =>
        LET tp == GrossProfit(input.rows)
            tl == GrossLoss(input.rows)
        IN  /\ ret.val.total_profit = tp
            /\ ret.val.total_loss = tl
            /\ (ret.val.profit_factor = Inf) <=> (tl = 0)
            /\ tl > 0 => SameQuotient(ret.val.profit_factor, Ratio(tp, tl))

\* calculate_metrics has returned for trades with neither profit nor loss
C4_Witness ==
    /\ Called("calculate_metrics") /\ NonEmptyInput
    /\ GrossProfit(input.rows) = 0 /\ GrossLoss(input.rows) = 0
    /\ ret.val.profit_factor = Inf

(***************************************************************************)
(* C5.  A trade whose net P&L is exactly zero is counted in total_trades   *)
(* but neither in winning_trades (net P&L > 0) nor in losing_trades (net   *)
(* P&L < 0): winning + losing <= total, strictly when such a trade exists. *)
(* Stated for the collections whose net P&L cells are all numbers.         *)
(***************************************************************************)
NoNullPnl == \A i \in 1..Len(input.rows) : ~IsNaN(NetOf(input.rows[i]))

C5_BreakEvenIsNeither ==
    (Called("calculate_metrics") /\ NonEmptyInput /\ NoNullPnl) =>
        LET n == Len(input.rows)
            m == ret.val
        IN  /\ m.total_trades = n
            /\ m.winning_trades = Cardinality({i \in 1..n : IsWinning(input.rows[i])})
            /\ m.losing_trades = Cardinality({i \in 1..n : IsLosing(input.rows[i])})
            /\ m.winning_trades + m.losing_trades <= m.total_trades
            /\ (\E i \in 1..n : IsBreakEven(input.rows[i]))
                   => m.winning_trades + m.losing_trades < m.total_trades

(***************************************************************************)
(* C6.  For a non-empty collection, null net P&L cells included,           *)
(* max_drawdown is a number >= 0, and it is 0 whenever the date-ordered    *)
(* cumulative net P&L never decreases.                                     *)
(***************************************************************************)
\* the cumulative net P&L after the first k rows, null cells adding nothing
PrefixPnl(rows, k) ==
    SumOver({i \in 1..k : ~IsNaN(NetOf(rows[i]))},
            [i \in 1..Len(rows) |-> IF IsNaN(NetOf(rows[i])) THEN 0 ELSE Val(NetOf(rows[i]))])

NeverDecreases(rows) ==
    \A k \in 1..Len(rows) : PrefixPnl(rows, k) >= PrefixPnl(rows, k - 1)

C6_DrawdownIsNonNegativeNumber ==
    (Called("calculate_metrics") /\ NonEmptyInput) =>
        /\ ~IsNaN(ret.val.max_drawdown)
        /\ Val(ret.val.max_drawdown) >= 0
        /\ NeverDecreases(df.rows) => Val(ret.val.max_drawdown) = 0

(***************************************************************************)
(* C7.  max_drawdown is the absolute value of the minimum, over the        *)
(* prefixes of the trades in ascending date order, of the prefix's         *)
(* cumulative net P&L minus the largest cumulative net P&L reached so far; *)
(* it depends on the dates and net P&L values only, not on the order the   *)
(* rows were supplied in.  Stated for the collections whose date and net   *)
(* P&L cells are all values.                                               *)
(***************************************************************************)
AllDated == \A i \in 1..Len(input.rows) : ~IsNaN(input.rows[i].date)

PeakPnl(rows, k) ==
    LET ps == {PrefixPnl(rows, j) : j \in 1..k}
    IN  CHOOSE m \in ps : \A q \in ps : m >= q

DeepestDrawdown(rows) ==
    LET ds == {PrefixPnl(rows, k) - PeakPnl(rows, k) : k \in 1..Len(rows)}
        least == CHOOSE m \in ds : \A q \in ds : m <= q
    IN  -least

\* the date orders of the caller's rows, however the caller had ordered them
DateOrders(rows) ==
    UNION {sort_values([i \in 1..Len(rows) |-> rows[p[i]]])
           : p \in Permutations(1..Len(rows))}

C7_DrawdownOfDateOrder ==
    (Called("calculate_metrics") /\ NonEmptyInput /\ NoNullPnl /\ AllDated) =>
        /\ ret.val.max_drawdown = Num(DeepestDrawdown(df.rows))
        /\ \A o \in DateOrders(input.rows) :
               ret.val.max_drawdown = Num(DeepestDrawdown(o))

(***************************************************************************)
(* Runs of losing trades.  A losing trade is a trade whose net P&L is below *)
(* zero; a break-even trade (net P&L 0) is neither a win nor a loss.  The  *)
(* loss of a run is the sum of its |net P&L|.                              *)
(***************************************************************************)
\* every trade of the collection is a win or a loss
AllDecided ==
    \A i \in 1..Len(input.rows) : IsWinning(input.rows[i]) \/ IsLosing(input.rows[i])

\* the maximal runs <<i, j>> of consecutive losing rows of s
Runs(s) ==
    {run \in (1..Len(s)) \X (1..Len(s)) :
        /\ run[1] <= run[2]
        /\ \A k \in run[1]..run[2] : IsLosing(s[k])
        /\ (run[1] = 1 \/ ~IsLosing(s[run[1] - 1]))
        /\ (run[2] = Len(s) \/ ~IsLosing(s[run[2] + 1]))}

RunLength(run) == run[2] - run[1] + 1

RunLoss(s, run) ==
    Num(SumOver(run[1]..run[2],
                [k \in 1..Len(s) |-> IF IsLosing(s[k]) THEN -Val(NetOf(s[k])) ELSE 0]))

\* the first of the longest runs
FirstLongest(s) ==
    CHOOSE run \in Runs(s) : \A other \in Runs(s) :
        \/ RunLength(run) > RunLength(other)
        \/ (RunLength(run) = RunLength(other) /\ run[1] <= other[1])

\* the result names the first longest run of the date order it scanned
LongestRunReported ==
    LET s == ret.val.df_sorted
        n == Len(s)
    IN  /\ (n > 0 => s \in sort_values(df.rows))
        /\ IF Runs(s) = {}
           THEN ret.val.max_consecutive = 0 /\ ret.val.max_loss_amount = Num(0)
           ELSE /\ ret.val.max_consecutive = RunLength(FirstLongest(s))
                /\ ret.val.max_loss_amount = RunLoss(s, FirstLongest(s))
        /\ (n > 0 /\ \A k \in 1..n : IsLosing(s[k])) =>
               /\ ret.val.max_consecutive = n
               /\ ret.val.max_loss_amount = RunLoss(s, <<1, n>>)

(***************************************************************************)
(* C8.  get_consecutive_losses returns the length of the longest run of    *)
(* consecutive losing trades in date order and the sum of |net P&L| over   *)
(* the first run of that length (0 and 0 when there is no losing trade);   *)
(* a winning trade ends a run, and n trades that are all losses give       *)
(* (n, sum of |net P&L|).  Stated for the collections whose net P&L cells  *)
(* are all numbers.                                                        *)
(***************************************************************************)
C8_LongestRun ==
    (Called("get_consecutive_losses") /\ NoNullPnl) => LongestRunReported

\* the same for the collections without a break-even or null-P&L trade:
\* what holds of the code
C8_LongestRunOfWinsAndLosses ==
    (Called("get_consecutive_losses") /\ AllDecided) => LongestRunReported

\* two longest runs of different loss: the first one is the one reported
C8_TieKeepsFirst ==
    /\ Called("get_consecutive_losses") /\ AllDecided
    /\ \E a, b \in Runs(ret.val.df_sorted) :
          /\ a[1] < b[1]
          /\ RunLength(a) = ret.val.max_consecutive
          /\ RunLength(b) = ret.val.max_consecutive
          /\ RunLoss(ret.val.df_sorted, a) # RunLoss(ret.val.df_sorted, b)
          /\ ret.val.max_loss_amount = RunLoss(ret.val.df_sorted, a)

LongRuns(s) == {run \in Runs(s) : RunLength(run) >= 3}

\* the k-th long run in chronological order
LongRun(s, k) ==
    CHOOSE run \in LongRuns(s) :
        Cardinality({other \in LongRuns(s) : other[1] < run[1]}) = k - 1

\* the streak list is the list of the long runs of the date order scanned
LongRunsListed ==
    LET s == ret.val.df_sorted
        streaks == ret.val.loss_streaks
    IN  /\ Len(streaks) = Cardinality(LongRuns(s))
        /\ \A k \in 1..Len(streaks) :
              LET run == LongRun(s, k)
              IN  /\ streaks[k].count = RunLength(run)
                  /\ streaks[k].total_loss = RunLoss(s, run)
                  /\ streaks[k].trades = SubSeq(s, run[1], run[2])

(***************************************************************************)
(* C9.  The streak list holds exactly the maximal runs of consecutive      *)
(* losing trades of length >= 3, one entry per run, in chronological       *)
(* order, each with its count, total loss and member trades; a run still   *)
(* open at the end of the sequence is listed, a run of length 1 or 2       *)
(* never.  Stated for the collections whose net P&L cells are all numbers. *)
(***************************************************************************)
C9_StreakList ==
    (Called("get_consecutive_losses") /\ NoNullPnl) => LongRunsListed

\* the same for the collections without a break-even or null-P&L trade:
\* what holds of the code
C9_StreakListOfWinsAndLosses ==
    (Called("get_consecutive_losses") /\ AllDecided) => LongRunsListed

\* two streaks are listed, the second still open when the sequence ends
C9_OpenRunListed ==
    /\ Called("get_consecutive_losses") /\ AllDecided
    /\ Len(ret.val.loss_streaks) = 2
    /\ IsLosing(ret.val.df_sorted[Len(ret.val.df_sorted)])
    /\ ret.val.loss_streaks[1].total_loss # ret.val.loss_streaks[2].total_loss

(***************************************************************************)
(* C10.  get_filtered_trades returns exactly the rows that satisfy every   *)
(* predicate that is set (exact match on currency_pair, type and strategy, *)
(* no constraint from an absent, empty or "subete" value; start <= date <= *)
(* end; a losing trade for only_losses), in the order of the analyzer's    *)
(* collection; all rows when no predicate is set; an empty result, and no  *)
(* exception, when no row matches.                                         *)
(***************************************************************************)
Constrains(f, k) == k \in DOMAIN f /\ f[k] \notin {None, "", Subete}

InRange(x, range) == ~IsNaN(x) /\ range[1] <= Val(x) /\ Val(x) <= range[2]

Matches(r, f) ==
    /\ \A k \in {"currency_pair", "type", "strategy"} : Constrains(f, k) => r[k] = f[k]
    /\ ("date_range" \in DOMAIN f /\ f["date_range"] # <<>>)
           => InRange(r.date, f["date_range"])
    /\ ("profit_range" \in DOMAIN f /\ f["profit_range"] # <<>>)
           => InRange(NetOf(r), f["profit_range"])
    /\ ("only_losses" \in DOMAIN f /\ f["only_losses"]) => IsLosing(r)

MatchesReturned ==
    /\ raised = "none"
    /\ ret.val.rows = SelectSeq(df.rows, LAMBDA r : Matches(r, ret.args[1]))
    /\ (DOMAIN ret.args[1] = {} => ret.val.rows = df.rows)

C10_FilterReturnsMatches ==
    Called("get_filtered_trades") => MatchesReturned

\* the same for the non-empty collections without a break-even or null-P&L
\* trade: what holds of the code
C10_FilterReturnsMatchesOfWinsAndLosses ==
    (Called("get_filtered_trades") /\ NonEmptyInput /\ AllDecided) => MatchesReturned

(***************************************************************************)
(* C11.  A filter specification whose date_range has start > end, or that  *)
(* holds a field name the filter does not know, is rejected with a         *)
(* validation error before any row is scanned: the call never returns a    *)
(* result, empty or not.  (A KeyError for a column the frame lacks comes   *)
(* out of the scan; it is not a validation error.)                         *)
(***************************************************************************)
InvertedRange(f) ==
    /\ "date_range" \in DOMAIN f
    /\ f["date_range"] # <<>>
    /\ f["date_range"][1] > f["date_range"][2]

InvalidFilterSpec(f) == InvertedRange(f) \/ ~(DOMAIN f \subseteq FilterKeys)

C11_InvalidSpecRejected ==
    (Called("get_filtered_trades") /\ InvalidFilterSpec(ret.args[1])) =>
        raised \notin {"none", "KeyError"}

(***************************************************************************)
(* Groups of an aggregation.  For strategy, currency_pair and type a null  *)
(* cell, a blank cell and the tokens "nan" and "none" in any letter case   *)
(* all mean that the field is absent.                                      *)
(***************************************************************************)
NullTokens == {"", "nan", "none"}

Absent(s) == s = None \/ Lower(Strip(s)) \in NullTokens

\* no strategy cell of the collection is a "none" token
NoNoneToken ==
    \A i \in 1..Len(input.rows) :
        input.rows[i].strategy = None \/ Lower(Strip(input.rows[i].strategy)) # "none"

GroupKeysOf(frame) == {frame.rows[k].key : k \in 1..Len(frame.rows)}

SumsDescend(frame) ==
    \A k \in 1..(Len(frame.rows) - 1) : frame.rows[k].sum >= frame.rows[k + 1].sum

\* one group per distinct strategy that is not absent, largest sum first
StrategyGroupsListed ==
    LET named == {i \in 1..Len(input.rows) : ~Absent(input.rows[i].strategy)}
        names == {input.rows[i].strategy : i \in named}
    IN  /\ GroupKeysOf(ret.val) = names
        /\ Len(ret.val.rows) = Cardinality(names)
        /\ (names = {} => ret.val = EmptyFrame)
        /\ SumsDescend(ret.val)

(***************************************************************************)
(* C12.  analyze_by_strategy leaves every trade whose strategy is absent   *)
(* or blank out of all groups, returns an empty result when no trade has a *)
(* strategy (though total_trades counts those trades), and otherwise lists *)
(* one group per distinct strategy, by summed net P&L descending.          *)
(***************************************************************************)
C12_StrategyGroups ==
    Called("analyze_by_strategy") => StrategyGroupsListed

\* the same for the collections without a "none" token: what holds of the code
C12_StrategyGroupsWithoutNoneToken ==
    (Called("analyze_by_strategy") /\ NoNoneToken) => StrategyGroupsListed

\* two named groups are listed and a blank-strategy trade is in neither
C12_BlankLeftOut ==
    /\ Called("analyze_by_strategy") /\ NoNoneToken
    /\ Len(ret.val.rows) = 2
    /\ ret.val.rows[1].sum > ret.val.rows[2].sum
    /\ \E i \in 1..Len(input.rows) : input.rows[i].strategy = " "

(***************************************************************************)
(* C14.  For each of the five grouping dimensions the net P&L sums of the  *)
(* returned groups add up to the total net P&L of the trades whose key is  *)
(* not null or blank: each of these trades is in exactly one group, and a  *)
(* trade with a null or blank key is in none.                              *)
(***************************************************************************)
KeyColumn ==
    [analyze_by_strategy |-> "strategy",
     analyze_by_currency_pair |-> "currency_pair",
     analyze_by_day_of_week |-> "day_name",
     analyze_by_market_session |-> "market_session",
     analyze_by_holding_time |-> "holding_category"]

Grouped == pc = "returned" /\ ret.op \in DOMAIN KeyColumn

\* the rows of the collection whose key for the dimension is present
KeyedRows(col) == {i \in 1..Len(df.rows) : ~Absent(df.rows[i][col])}

AmountOf(i) == IF IsNaN(NetOf(df.rows[i])) THEN 0 ELSE Val(NetOf(df.rows[i]))

\* the groups are the keys of the keyed rows, one group a key
GroupsPartition(col) ==
    /\ GroupKeysOf(ret.val) = {df.rows[i][col] : i \in KeyedRows(col)}
    /\ Len(ret.val.rows) = Cardinality(GroupKeysOf(ret.val))

ReportedTotal ==
    SumOver(1..Len(ret.val.rows), [k \in 1..Len(ret.val.rows) |-> ret.val.rows[k].sum])

C14_GroupSumsAddUp ==
    Grouped =>
        LET col == KeyColumn[ret.op]
        IN  /\ GroupsPartition(col)
            /\ ReportedTotal = SumOver(KeyedRows(col), [i \in 1..Len(df.rows) |-> AmountOf(i)])

\* what holds of the code: without a "none" token the groups partition the
\* keyed rows, and each reported sum is the group's sum rounded to two
\* decimals
C14_GroupSumsRounded ==
    (Grouped /\ NoNoneToken) =>
        LET col == KeyColumn[ret.op]
        IN  /\ GroupsPartition(col)
            /\ \A k \in 1..Len(ret.val.rows) :
                  ret.val.rows[k].sum =
                      RoundAmount(SumOver({i \in KeyedRows(col) :
                                              df.rows[i][col] = ret.val.rows[k].key},
                                          [i \in 1..Len(df.rows) |-> AmountOf(i)]))

(***************************************************************************)
(* C13.  For strategy, currency_pair and type a cell holding the empty     *)
(* string or the token "nan" or "none" in any letter case is absent: after *)
(* load_data the field is null, and no such value is a group key of        *)
(* analyze_by_strategy or analyze_by_currency_pair or an entry of a filter *)
(* option list.                                                            *)
(***************************************************************************)
Loaded == pc \in {"loaded", "ready", "returned"}

NullableFields == {"strategy", "currency_pair", "type"}

C13_TokensAreAbsent ==
    /\ Loaded =>
           \A i \in 1..Len(input.rows) : \A f \in NullableFields :
               input.rows[i][f] = None \/ ~Absent(input.rows[i][f])
    /\ (Called("analyze_by_strategy") \/ Called("analyze_by_currency_pair")) =>
           \A key \in GroupKeysOf(ret.val) : ~Absent(key)
    /\ Called("trade_log_options") =>
           \A v \in ret.val.currency_pairs \cup ret.val.types \cup ret.val.strategies :
               ~Absent(v)

(***************************************************************************)
(* C20.  load_data on a worksheet whose header row holds blank cells or    *)
(* repeated names succeeds: the columns under a blank header are dropped,  *)
(* every other column keeps its own cells, and the column names of the     *)
(* result are pairwise distinct.                                           *)
(***************************************************************************)
LoadReturned == pc \in {"loaded", "failed"} /\ ret.op = "load_data"

HasData == Len(sheet.cells) >= 2

\* the positions of the header row whose header is not blank, in order
KeptColumns ==
    SelectSeq([j \in 1..Len(sheet.cells[1]) |-> j],
              LAMBDA j : Strip(sheet.cells[1][j]) # "")

NoBlankHeader == Len(KeptColumns) = Len(sheet.cells[1])

\* the data rows that are not empty all along
DataRows == SelectSeq(Tail(sheet.cells), LAMBDA r : \E j \in 1..Len(r) : r[j] # "")

ColumnsKeepCells ==
    /\ Len(ret.val.columns) = Len(KeptColumns)
    /\ Len(ret.val.table) = Len(DataRows)
    /\ \A i \in 1..Len(DataRows) : \A m \in 1..Len(KeptColumns) :
           ret.val.table[i][m] = DataRows[i][KeptColumns[m]]

NamesDistinct ==
    \A a, b \in 1..Len(ret.val.columns) :
        a # b => ret.val.columns[a] # ret.val.columns[b]

C20_HeadersLoad ==
    (LoadReturned /\ HasData) =>
        /\ raised = "none"
        /\ NamesDistinct
        /\ KeptColumns # <<>> => ColumnsKeepCells

\* what holds of the code: without a blank header the load succeeds and
\* every column keeps its cells
C20_LoadsWithoutBlankHeader ==
    (LoadReturned /\ HasData /\ NoBlankHeader) =>
        (raised = "none" /\ ColumnsKeepCells)

(***************************************************************************)
(* C16.  update_review_comment for a trade_id that no data row holds       *)
(* returns False and changes no cell of the worksheet; for a trade_id that *)
(* a data row holds it returns True and writes the comment into the        *)
(* review-comment cell of the first such row and into no other cell.       *)
(***************************************************************************)
HasColumn(cells, header) == cells # <<>> /\ header \in Range(cells[1])

\* the data rows of the worksheet whose trade-id cell is the given id
RowsOf(cells, trade_id) ==
    IF ~HasColumn(cells, COLUMN_MAPPING.trade_id) THEN {}
    ELSE {i \in 2..Len(cells) :
            Strip(cells[i][IndexOf(cells[1], COLUMN_MAPPING.trade_id)])
                = ToString(trade_id)}

FirstRowOf(cells, trade_id) ==
    CHOOSE i \in RowsOf(cells, trade_id) : \A k \in RowsOf(cells, trade_id) : i <= k

CommentWritten(trade_id, comment) ==
    LET row == FirstRowOf(sheet.cells, trade_id)
        col == IndexOf(sheet.cells[1], COLUMN_MAPPING.review_comment)
    IN  /\ ret'.val = TRUE
        /\ HasColumn(sheet.cells, COLUMN_MAPPING.review_comment) =>
               sheet'.cells = [sheet.cells EXCEPT ![row][col] = comment]

C16_UpdateReviewComment ==
    [][(pc = "editing" /\ pc' = "edited") =>
           LET trade_id == ret'.args[1]
               comment  == ret'.args[2]
           IN  /\ raised' = "none"
               /\ RowsOf(sheet.cells, trade_id) = {} =>
                      (ret'.val = FALSE /\ sheet'.cells = sheet.cells)
               /\ RowsOf(sheet.cells, trade_id) # {} =>
                      CommentWritten(trade_id, comment)]_vars

\* what holds of the code: on a worksheet that has the review-comment column
C16_UpdateOfCommentColumn ==
    [][(pc = "editing" /\ pc' = "edited"
            /\ HasColumn(sheet.cells, COLUMN_MAPPING.review_comment)) =>
           LET trade_id == ret'.args[1]
               comment  == ret'.args[2]
           IN  /\ RowsOf(sheet.cells, trade_id) = {} =>
                      (ret'.val = FALSE /\ sheet'.cells = sheet.cells)
               /\ RowsOf(sheet.cells, trade_id) # {} =>
                      CommentWritten(trade_id, comment)]_vars

(***************************************************************************)
(* C17.  Saving edited rows writes each changed strategy into the strategy *)
(* cell of the worksheet row with that trade_id and reports success; a     *)
(* save with comment changes and strategy changes persists all of them or  *)
(* reports a failure.                                                      *)
(***************************************************************************)
StrategyCell(cells, trade_id) ==
    cells[FirstRowOf(cells, trade_id)][IndexOf(cells[1], COLUMN_MAPPING.strategy)]

CommentCell(cells, trade_id) ==
    cells[FirstRowOf(cells, trade_id)][IndexOf(cells[1], COLUMN_MAPPING.review_comment)]

\* the last value the edits give to a field of a trade, None if none does
RECURSIVE LastEdit(_, _, _)
LastEdit(edits, trade_id, field) ==
    IF edits = <<>> THEN None
    ELSE LET e == edits[Len(edits)]
         IN  IF e.trade_id = trade_id /\ e[field] # None THEN e[field]
             ELSE LastEdit(SubSeq(edits, 1, Len(edits) - 1), trade_id, field)

Persisted(cells, edits) ==
    \A t \in {edits[k].trade_id : k \in 1..Len(edits)} :
        /\ LastEdit(edits, t, "strategy") # None =>
               StrategyCell(cells, t) = LastEdit(edits, t, "strategy")
        /\ LastEdit(edits, t, "review_comment") # None =>
               CommentCell(cells, t) = LastEdit(edits, t, "review_comment")

\* every edited trade is a row of the worksheet, which has the three columns
Savable(cells, edits) ==
    /\ \A h \in {"trade_id", "strategy", "review_comment"} :
           HasColumn(cells, COLUMN_MAPPING[h])
    /\ \A k \in 1..Len(edits) : RowsOf(cells, edits[k].trade_id) # {}

C17_StrategySaved ==
    [][(pc = "editing" /\ pc' = "saved" /\ Savable(sheet.cells, ret'.args[1])) =>
           LET edits == ret'.args[1]
           IN  /\ (\E k \in 1..Len(edits) : edits[k].strategy # None) =>
                      (ret'.val.message = "success" /\ Persisted(sheet'.cells, edits))
               /\ Persisted(sheet'.cells, edits) \/ ret'.val.message # "success"]_vars

\* what holds of the code: a save of comment changes alone persists them
C17_CommentsSaved ==
    [][(pc = "editing" /\ pc' = "saved" /\ Savable(sheet.cells, ret'.args[1])
            /\ \A k \in 1..Len(ret'.args[1]) : ret'.args[1][k].strategy = None) =>
           (ret'.val.message = "success" /\ Persisted(sheet'.cells, ret'.args[1]))]_vars

(***************************************************************************)
(* C18.  create_strategy on a name of the catalog returns False and leaves *)
(* the entry of that name as it was; sync_strategy leaves the name in the  *)
(* catalog with the given rules, and keeps the created_time of a name that *)
(* was there; delete_strategy on a name that is not in the catalog returns *)
(* False, and on a name of the catalog removes that name and no other.     *)
(***************************************************************************)
C18_CatalogOperations ==
    [][pc = "catalog" =>
           LET name   == ret'.args[1]
               before == storage.strategies
               after  == storage'.strategies
           IN  /\ (ret'.op = "create_strategy" /\ name \in DOMAIN before) =>
                      (ret'.val = FALSE /\ after = before)
               /\ ret'.op = "sync_strategy" =>
                      /\ name \in DOMAIN after
                      /\ after[name].rules = ret'.args[2]
                      /\ name \in DOMAIN before =>
                             after[name].created_time = before[name].created_time
                      /\ name \notin DOMAIN before =>
                             after[name].created_time = storage'.clock
               /\ (ret'.op = "delete_strategy" /\ name \notin DOMAIN before) =>
                      (ret'.val = FALSE /\ after = before)
               /\ (ret'.op = "delete_strategy" /\ name \in DOMAIN before) =>
                      /\ DOMAIN after = DOMAIN before \ {name}
                      /\ \A n \in DOMAIN after : after[n] = before[n]]_vars

\* a sync has rewritten the rules of a name created earlier, next to
\* another name of the catalog
C18_Witness ==
    /\ pc = "catalog" /\ ret.op = "sync_strategy"
    /\ ret.args[1] \in DOMAIN storage.strategies
    /\ storage.strategies[ret.args[1]].rules = ret.args[2]
    /\ storage.strategies[ret.args[1]].created_time
           < storage.strategies[ret.args[1]].last_edited_time
    /\ DOMAIN storage.strategies = CatalogNames

(***************************************************************************)
(* C19.  When the push of the allowed values to the worksheet fails, with  *)
(* update_strategy_dropdown returning False or raising, an edit whose      *)
(* catalog write succeeds has the outcome it has without the failure:      *)
(* save_strategy_rules and add_new_strategy return True and raise nothing, *)
(* and the strategy is in the catalog and in StrategyManager.strategies    *)
(* with the given rules.                                                   *)
(***************************************************************************)
Stored(st, mgr, name, rules) ==
    /\ name \in DOMAIN st.strategies /\ st.strategies[name].rules = rules
    /\ name \in DOMAIN mgr /\ mgr[name].rules = rules

PushFails == ret'.args[4] # "ok"

C19_PushFailureKeepsEdit ==
    [][pc = "managing" =>
           /\ (ret'.op = "save_strategy_rules" /\ PushFails /\ ret'.args[3]) =>
                  /\ raised' = "none" /\ ret'.val = TRUE
                  /\ Stored(storage', manager', ret'.args[1], ret'.args[2])
           /\ (ret'.op = "add_new_strategy" /\ PushFails /\ ret'.args[3]
                   /\ Strip(ret'.args[1]) # ""
                   /\ Strip(ret'.args[1]) \notin DOMAIN manager
                   /\ Strip(ret'.args[1]) \notin DOMAIN storage.strategies) =>
                  /\ raised' = "none" /\ ret'.val = TRUE
                  /\ Stored(storage', manager', Strip(ret'.args[1]), ret'.args[2])]_vars

\* add_new_strategy has stored a name while the push raised: the dropdown
\* of the worksheet does not list it
C19_Witness ==
    /\ pc = "managing" /\ ret.op = "add_new_strategy"
    /\ ret.args[4] = "raise" /\ ret.val = TRUE
    /\ Stored(storage, manager, Strip(ret.args[1]), ret.args[2])
    /\ \A j \in 1..Len(sheet.dropdown) : sheet.dropdown[j] # Strip(ret.args[1])

(***************************************************************************)
(* C15.  Every list of strategy options is sorted, holds each trimmed name *)
(* at most once and holds no blank, "nan" or "none" entry in any letter    *)
(* case: the list get_strategy_list returns, the list the strategy page    *)
(* shows and the list pushed to the dropdown of the worksheet.             *)
(***************************************************************************)
Position(name) == IndexOf(CodePointOrder, name)

OptionList(list) ==
    /\ \A i, j \in 1..Len(list) : i < j => Position(list[i]) < Position(list[j])
    /\ \A i, j \in 1..Len(list) : i # j => Strip(list[i]) # Strip(list[j])
    /\ \A i \in 1..Len(list) : ~Absent(list[i])

C15_OptionLists ==
    pc = "managing" =>
        /\ ret.op \in {"get_strategy_list", "strategy_management_page"} =>
               OptionList(ret.val)
        /\ OptionList(sheet.dropdown)

\* what holds of the code: the lists are sorted and hold no blank entry and
\* no "nan" in any letter case that came from the worksheet
C15_ListsSorted ==
    pc = "managing" =>
        /\ ret.op \in {"get_strategy_list", "strategy_management_page"} =>
               \A i, j \in 1..Len(ret.val) :
                   i < j => Position(ret.val[i]) < Position(ret.val[j])
        /\ \A i, j \in 1..Len(sheet.dropdown) :
               i < j => Position(sheet.dropdown[i]) < Position(sheet.dropdown[j])

\* the strategy options of the trade log are trimmed, distinct and present
C15_TradeLogStrategyOptions ==
    Called("trade_log_options") =>
        \A a \in ret.val.strategies :
            /\ ~Absent(a)
            /\ \A b \in ret.val.strategies : a # b => Strip(a) # Strip(b)

(***************************************************************************)
(* C21.  The coercion and cleaning steps applied to a frame that load_data *)
(* returned change no cell of it, also in the rows whose currency_pair,    *)
(* type or strategy is null.                                               *)
(***************************************************************************)
C21_NormalizerIdempotent ==
    [][(pc = "loaded" /\ pc' = "normalized") => input' = input]_vars

\* what holds of the code: the rows without a null pair and with a type that
\* is neither null nor the string 'nan' (a type cell "NaN" lowered)
NoNullPairOrType(d) ==
    \A i \in 1..Len(d.rows) :
        d.rows[i].currency_pair # None /\ d.rows[i].type \notin {None, "nan"}

C21_IdempotentOnNamedPairAndType ==
    [][(pc = "loaded" /\ pc' = "normalized" /\ NoNullPairOrType(input))
           => input' = input]_vars

(***************************************************************************)
(* C22.  Whatever the cells of the worksheet hold, load_data raises        *)
(* nothing: a numeric or timestamp cell that does not parse becomes null   *)
(* and its row stays, a row is dropped only when all its cells are empty,  *)
(* and a worksheet with a header row and no data row gives the empty frame *)
(* of the mapped columns.                                                  *)
(***************************************************************************)
Numerals == {"1", "2", "3", "4", "-14", "60"}

Timestamps == {"d1", "d2", "t0-10", "t1-17"}

\* the cell of data row r under the header of column col, "" without one
CellUnder(r, col) ==
    IF COLUMN_MAPPING[col] \in Range(sheet.cells[1])
    THEN r[IndexOf(sheet.cells[1], COLUMN_MAPPING[col])]
    ELSE ""

CellsCoerced ==
    /\ Len(input.rows) = Len(DataRows)
    /\ \A i \in 1..Len(DataRows) :
           /\ \A c \in {"trade_id", "pips", "holding_time_sec", "net_profit_loss_jpy"} :
                  input.rows[i][c] = NaN <=> CellUnder(DataRows[i], c) \notin Numerals
           /\ \A c \in {"start_time", "date"} :
                  input.rows[i][c] = NaT <=> CellUnder(DataRows[i], c) \notin Timestamps

C22_MalformedCellsLoad ==
    (LoadReturned /\ sheet.cells # <<>>) =>
        /\ raised = "none"
        /\ HasData => CellsCoerced
        /\ ~HasData => input = Frame(LoadedColumns, <<>>)

\* the headers are not blank and no mapped header occurs twice
WellHeaded ==
    /\ NoBlankHeader
    /\ \A a, b \in 1..Len(sheet.cells[1]) :
           (a # b /\ Strip(sheet.cells[1][a]) = Strip(sheet.cells[1][b])) =>
               \A c \in LoadedColumns : COLUMN_MAPPING[c] # Strip(sheet.cells[1][a])

\* what holds of the code: under such headers
C22_MalformedCellsLoadWellHeaded ==
    (LoadReturned /\ sheet.cells # <<>> /\ WellHeaded) =>
        /\ raised = "none"
        /\ HasData => CellsCoerced
        /\ ~HasData => input = Frame(LoadedColumns, <<>>)

\* a row with a numeral, a timestamp and an amount that do not parse is kept
C22_MalformedRowKept ==
    /\ pc = "loaded" /\ Len(input.rows) = 1
    /\ sheet.cells = <<MalformedHeaders, <<"x", "x", "x">>, <<"", "", "">>>>
    /\ input.rows[1].net_profit_loss_jpy = NaN /\ input.rows[1].start_time = NaT

CacheOps == {"load_data", "refresh_data", "get_cached_data"}

C24_CacheIsLastLoad ==
    (pc = "cache" /\ ret.op \in CacheOps /\ raised = "none") => input = ret.val

\* what holds of the code: when the call found a data row
C24_CacheIsLastLoadWithRows ==
    (pc = "cache" /\ ret.op \in CacheOps /\ raised = "none"
         /\ Len(ret.val.rows) > 0) => input = ret.val

C24_FailedLoadKeepsCache ==
    [][(pc = "cache" /\ ret'.op \in CacheOps /\ raised' # "none") =>
           input' = input]_vars

(***************************************************************************)
(* C25.  The session of every trade the analyzer holds is one of the four  *)
(* sessions, and outside the hours 22 and 23 it follows the table: hours   *)
(* 9 to 14 are Tokyo, 16 to 21 London, 0 to 5 New York, and the hours 6,   *)
(* 7, 8 and 15 and a missing hour (start_time NaT) are Other.              *)
(***************************************************************************)
Sessions == {"Tokyo", "London", "NewYork", "Other"}

SessionTable(st) ==
    IF IsNaN(st) THEN "Other"
    ELSE IF st[2] \in 9..14 THEN "Tokyo"
    ELSE IF st[2] \in 16..21 THEN "London"
    ELSE IF st[2] \in 0..5 THEN "NewYork"
    ELSE "Other"

C25_SessionTable ==
    pc # "new" =>
        \A i \in 1..Len(df.rows) :
            /\ df.rows[i].market_session \in Sessions
            /\ (IsNaN(df.rows[i].start_time) \/ df.rows[i].start_time[2] \notin {22, 23})
                   => df.rows[i].market_session = SessionTable(df.rows[i].start_time)

\* the analyzer holds a trade of hour 15, or one without a start time
C25_Witness ==
    /\ pc = "ready" /\ Len(df.rows) > 0
    /\ df.rows[1].start_time = <<0, 15>>
    /\ df.rows[1].market_session = "Other"

C25_WitnessMissingHour ==
    /\ pc = "ready" /\ Len(df.rows) > 0
    /\ df.rows[1].start_time = NaT
    /\ df.rows[1].market_session = "Other"

(***************************************************************************)
(* C26.  The holding bucket of every trade the analyzer holds follows its  *)
(* holding_time_sec: below 300 s under 5 min, 300 to 1799 s 5-30 min, 1800 *)
(* to 3599 s 30-60 min, 3600 s and more over 1 hour, a null unknown; the   *)
(* bucket is one of these five.                                            *)
(***************************************************************************)
Buckets == {"under5", "5to30", "30to60", "over60", "unknown"}

BucketTable(sec) ==
    IF sec = NaN THEN "unknown"
    ELSE IF sec[1] <= 299 THEN "under5"
    ELSE IF sec[1] \in 300..1799 THEN "5to30"
    ELSE IF sec[1] \in 1800..3599 THEN "30to60"
    ELSE "over60"

C26_HoldingBuckets ==
    pc # "new" =>
        \A i \in 1..Len(df.rows) :
            /\ df.rows[i].holding_category \in Buckets
            /\ df.rows[i].holding_category = BucketTable(df.rows[i].holding_time_sec)

\* the analyzer holds a trade held for exactly 300, 1800 or 3600 seconds
C26_Witness ==
    /\ pc = "ready" /\ Len(df.rows) > 0
    /\ df.rows[1].holding_time_sec = Num(1800)
    /\ df.rows[1].holding_category = "30to60"

(***************************************************************************)
(* C27.  analyze_by_day_of_week lists its groups from Monday to Sunday and *)
(* analyze_by_holding_time in the order under 5 min, 5-30 min, 30-60 min,  *)
(* over 1 hour, unknown; the groups listed are the weekdays (buckets) of   *)
(* the trades of the collection, each once: one without a trade is not     *)
(* listed and one with a trade is.                                         *)
(***************************************************************************)
InFixedOrder(frame, order) ==
    \A i, j \in 1..Len(frame.rows) :
        i < j => IndexOf(order, frame.rows[i].key) < IndexOf(order, frame.rows[j].key)

Weekdays ==
    {DayNames[input.rows[i].start_time[1] + 1]
     : i \in {k \in 1..Len(input.rows) : input.rows[k].start_time # NaT}}

BucketsHeld ==
    {BucketTable(input.rows[i].holding_time_sec) : i \in 1..Len(input.rows)}

C27_FixedOrders ==
    /\ (Called("analyze_by_day_of_week") /\ NonEmptyInput) =>
           /\ GroupKeysOf(ret.val) = Weekdays
           /\ InFixedOrder(ret.val, DayNames)
    /\ (Called("analyze_by_holding_time") /\ NonEmptyInput) =>
           /\ GroupKeysOf(ret.val) = BucketsHeld
           /\ InFixedOrder(ret.val, category_order)

\* a Friday trade dated before a Monday trade: Monday is listed first, and
\* no other weekday is listed
C27_Witness ==
    /\ Called("analyze_by_day_of_week") /\ Len(input.rows) = 3
    /\ input.rows[1].start_time = <<4, 10>> /\ input.rows[2].start_time = <<0, 10>>
    /\ input.rows[3].start_time = NaT
    /\ Len(ret.val.rows) = 2
    /\ ret.val.rows[1].key = "Monday" /\ ret.val.rows[2].key = "Friday"

\* a trade without a holding time dated before one held an hour
C27_WitnessBuckets ==
    /\ Called("analyze_by_holding_time") /\ Len(input.rows) = 2
    /\ input.rows[1].holding_time_sec = NaN
    /\ input.rows[2].holding_time_sec = Num(3600)
    /\ Len(ret.val.rows) = 2
    /\ ret.val.rows[1].key = "over60" /\ ret.val.rows[2].key = "unknown"

(***************************************************************************)
(* C28.  When create_strategy, update_strategy_rules, sync_strategy or     *)
(* delete_strategy returns False, also because the JSON file could not be  *)
(* written, the catalog in memory is the catalog of before the call.       *)
(***************************************************************************)
C28_FailedCallKeepsCatalog ==
    [][(pc = "catalog" /\ ret'.val = FALSE) =>
           storage'.strategies = storage.strategies]_vars

\* what holds of the code: a call that returns False left the JSON file as
\* it was, and left the catalog as it was when it returned False on its
\* test of the name
C28_FailedCallKeepsFile ==
    [][(pc = "catalog" /\ ret'.val = FALSE) =>
           /\ storage'.file = storage.file
           /\ (ret'.op \in {"create_strategy"} /\ ret'.args[1] \in DOMAIN storage.strategies)
                  => storage'.strategies = storage.strategies
           /\ (ret'.op \in {"update_strategy_rules", "delete_strategy"}
                   /\ ret'.args[1] \notin DOMAIN storage.strategies)
                  => storage'.strategies = storage.strategies]_vars

(***************************************************************************)
(* C29.  SheetsClient.sync_trades adds no row for a ticket that the sheet  *)
(* has: when every ticket is in at most one row before the call, every     *)
(* ticket is in at most one row after it, whatever the batch, and a second *)
(* sync of the same batch adds no row.                                     *)
(***************************************************************************)
TicketRows(cells, t) == {n \in 2..Len(cells) : cells[n][1] = t}

OneRowPerTicket(cells) ==
    \A t \in {str(n) : n \in SyncTickets} : Cardinality(TicketRows(cells, t)) <= 1

SameBatchAgain == ret.op = "sync_trades" /\ ret'.args[1] = ret.args[1]

C29_NoDuplicateRows ==
    [][pc = "syncing" =>
           /\ OneRowPerTicket(sheet.cells) => OneRowPerTicket(sheet'.cells)
           /\ SameBatchAgain => sheet'.cells = sheet.cells]_vars

\* what holds of the code: when the tickets of the batch are distinct and
\* column A was read, no ticket gets a second row; and when moreover every
\* row of the first sync was written, the second sync writes none
DistinctTickets(trades) ==
    \A i, j \in 1..Len(trades) : i # j => trades[i].ticket # trades[j].ticket

AllWritten(r) == \A i \in 1..Len(r.args[1]) : r.args[4][i]

C29_NoDuplicateRowsOfDistinctTickets ==
    [][(pc = "syncing" /\ DistinctTickets(ret'.args[1]) /\ ret'.args[3]) =>
           /\ OneRowPerTicket(sheet.cells) => OneRowPerTicket(sheet'.cells)
           /\ (SameBatchAgain /\ AllWritten(ret) /\ ret.args[3]) =>
                  sheet'.cells = sheet.cells]_vars

\* a batch that lists ticket 1 twice, synced to a sheet without the ticket,
\* column A read and both rows written: the sheet has two rows of ticket 1
C29_TicketListedTwice ==
    /\ pc = "syncing" /\ ret.op = "sync_trades"
    /\ ret.args[1] = <<[ticket |-> 1], [ticket |-> 1]>>
    /\ ret.args[3] /\ ret.args[4] = <<TRUE, TRUE>>
    /\ ret.val = [new |-> 2, existing |-> 0]
    /\ sheet.cells = <<SyncHeader, <<"1", "">>, <<"1", "">>>>

(***************************************************************************)
(* C30.  NotionClient.sync_trades counts a trade as new only when a page   *)
(* of its ticket was created in the database during the call, so after the *)
(* call the trades of the batch without a page in the database are counted *)
(* as failed, whatever the ticket cache held before.                       *)
(***************************************************************************)
Created == {notion'.pages[k] : k \in (Len(notion.pages) + 1)..Len(notion'.pages)}

TradesOf(trades, tickets) == {i \in 1..Len(trades) : str(trades[i].ticket) \in tickets}

NewOnlyIfCreated ==
    /\ ret'.val[1].new <= Cardinality(TradesOf(ret'.args[1], Created))
    /\ Cardinality(TradesOf(ret'.args[1], {str(t) : t \in SyncTickets}
                                              \ PageTickets(notion')))
           <= ret'.val[1].failed

C30_NewMeansCreated ==
    [][(pc = "notion" /\ ret'.op = "sync_trades") => NewOnlyIfCreated]_vars

\* what holds of the code: when the ticket cache holds nothing before the call
C30_NewMeansCreatedOnEmptyCache ==
    [][(pc = "notion" /\ ret'.op = "sync_trades" /\ notion.cache = <<>>)
           => NewOnlyIfCreated]_vars

\* a ticket of the cache without a page, the listing failed: the trade is
\* counted as new and the database has no page for it
C30_CachedTicketCountedNew ==
    /\ pc = "notion" /\ ret.op = "sync_trades"
    /\ ret.args[1] = <<[ticket |-> 1]>> /\ ~ret.args[2]
    /\ ret.val[1].new = 1 /\ ret.val[1].failed = 0
    /\ notion.pages = <<>>

====
